---- MODULE Spec2Model ----
(***************************************************************************)
(* Stack-set rollout of cloudformation-seed                                *)
(* (src/cloudformation_seed/cfn_stackset.py): the classification of        *)
(* (target, region) pairs, the grouping by override, the deployment        *)
(* planner and the controller that issues the batches against the remote   *)
(* CloudFormation service.                                                 *)
(*                                                                         *)
(* Conventions.  A target is an account id (strategy "accounts") or an     *)
(* organizational-unit id (strategy "organization"); ids are numbers, so   *)
(* that sorted(a) of the source is the numeric order.  A Python dict is a  *)
(* function; where the source iterates a dict the model iterates its keys  *)
(* in ascending order (the remote API takes the account list as a set).    *)
(* A string is a sequence of one-character strings.  sha1 is modelled as   *)
(* the identity on the bytes it digests (no collisions).                   *)
(*                                                                         *)
(* The remote service.  An instance is identified by its (target, region)  *)
(* pair, an organizational unit standing for the accounts it holds.  A     *)
(* stack-set runs one operation at a time and refuses a mutating call      *)
(* while one runs; an operation that was accepted succeeds.                *)
(***************************************************************************)
EXTENDS Integers, Sequences, FiniteSets, TLC

\* ---------------------------------------------------------------- strings

\* The characters the model's strings are made of, in ASCII order.
Alphabet == <<"-", "1", "2", ":", ";", "a", "b">>

CharCode(c) == CHOOSE i \in 1..Len(Alphabet) : Alphabet[i] = c

\* Python's string comparison a < b.
RECURSIVE StrLess(_, _)
StrLess(a, b) ==
    IF a = <<>> THEN b # <<>>
    ELSE IF b = <<>> THEN FALSE
    ELSE IF a[1] = b[1] THEN StrLess(Tail(a), Tail(b))
    ELSE CharCode(a[1]) < CharCode(b[1])

\* F applied to the value of v (v is evaluated once).
With(v, F(_)) == CHOOSE y \in {F(x) : x \in {v}} : TRUE

\* x put into the sorted list after every element whose key is not greater.
InsertByStr(sortedPs, x) ==
    LET n == Cardinality({i \in 1..Len(sortedPs) : ~StrLess(x[1], sortedPs[i][1])})
    IN  SubSeq(sortedPs, 1, n) \o <<x>> \o SubSeq(sortedPs, n + 1, Len(sortedPs))

\* sorted(xs, key=...) on a list of <<key, item>> pairs with string keys:
\* ascending and stable.
RECURSIVE SortedByStr(_)
SortedByStr(ps) ==
    IF Len(ps) <= 1 THEN ps
    ELSE With(SortedByStr(SubSeq(ps, 1, Len(ps) - 1)),
              LAMBDA rest : InsertByStr(rest, ps[Len(ps)]))

InsertByInt(sortedPs, x) ==
    LET n == Cardinality({i \in 1..Len(sortedPs) : sortedPs[i][1] <= x[1]})
    IN  SubSeq(sortedPs, 1, n) \o <<x>> \o SubSeq(sortedPs, n + 1, Len(sortedPs))

\* sorted(xs, key=...) on a list of <<key, item>> pairs with integer keys:
\* ascending and stable.
RECURSIVE SortedByInt(_)
SortedByInt(ps) ==
    IF Len(ps) <= 1 THEN ps
    ELSE With(SortedByInt(SubSeq(ps, 1, Len(ps) - 1)),
              LAMBDA rest : InsertByInt(rest, ps[Len(ps)]))

Items(ps) == [i \in 1..Len(ps) |-> ps[i][2]]

\* The elements of a finite set of integers as an ascending list.
RECURSIVE Ascending(_)
Ascending(S) ==
    IF S = {} THEN <<>>
    ELSE LET m == CHOOSE x \in S : \A y \in S : x <= y
         IN  <<m>> \o Ascending(S \ {m})

Range(s) == {s[i] : i \in 1..Len(s)}

\* -------------------------------------------------------------- overrides

\* An override is a list of {'ParameterKey': k, 'ParameterValue': v}.
Param(k, v) == [ParameterKey |-> k, ParameterValue |-> v]

\* sorted(overrides, key=lambda x: x['ParameterKey'])
SortedByParameterKey(overrides) ==
    Items(SortedByStr([i \in 1..Len(overrides) |->
        <<overrides[i].ParameterKey, overrides[i]>>]))

\* '{ParameterKey}-{ParameterValue}'.format_map(x)
FormatKeyValue(x) == x.ParameterKey \o <<"-">> \o x.ParameterValue

\* bytes(repr(item), 'utf-8'): the key and the value, delimited.
Repr(x) == x.ParameterKey \o <<":">> \o x.ParameterValue \o <<";">>

RECURSIVE Concat(_)
Concat(ss) == IF ss = <<>> THEN <<>> ELSE Head(ss) \o Concat(Tail(ss))

\* Mutant: every override digests to '-' (the emptiness test always true).
calculate_overrides_checksum_const(account) == <<"-">>

calculate_overrides_checksum(account) ==
    IF Len(account.override) = 0 THEN <<"-">>
    ELSE LET sorted == Items(SortedByStr([i \in 1..Len(account.override) |->
                           <<FormatKeyValue(account.override[i]), account.override[i]>>]))
         IN  Concat([i \in 1..Len(sorted) |-> Repr(sorted[i])])

\* Two overrides are the same set of parameters (equal up to order).
SameOverride(o1, o2) == SortedByParameterKey(o1) = SortedByParameterKey(o2)

\* ---------------------------------------------------------------- planner

\* itertools.combinations(keys, i) for an ascending list of keys.
RECURSIVE Combinations(_, _)
Combinations(keys, i) ==
    IF i = 0 THEN << <<>> >>
    ELSE IF Len(keys) < i THEN <<>>
    ELSE LET with == Combinations(Tail(keys), i - 1)
         IN  [j \in 1..Len(with) |-> <<Head(keys)>> \o with[j]]
             \o Combinations(Tail(keys), i)

\* set.intersection(*(a[k] for k in subset))
Intersection(a, subset) ==
    {r \in a[subset[1]] : \A j \in 1..Len(subset) : r \in a[subset[j]]}

AppendNew(ranking, s) == IF s \in Range(ranking) THEN ranking ELSE Append(ranking, s)

RECURSIVE AppendAllNew(_, _, _)
AppendAllNew(ranking, a, subset) ==
    IF subset = <<>> THEN ranking
    ELSE AppendAllNew(AppendNew(ranking, a[Head(subset)]), a, Tail(subset))

RECURSIVE RankSubsets(_, _, _)
RankSubsets(ranking, a, subsets) ==
    IF subsets = <<>> THEN ranking
    ELSE LET subset      == Head(subsets)
             intersected == Intersection(a, subset)
         IN  RankSubsets(
                 IF Cardinality(intersected) > 0
                 THEN AppendNew(ranking, intersected)
                 ELSE AppendAllNew(ranking, a, subset),
                 a, Tail(subsets))

\* for i in range(len(a), 1, -1): the subsets of i keys, larger subsets first.
RECURSIVE SubsetsFrom(_, _)
SubsetsFrom(keys, i) ==
    IF i < 2 THEN <<>>
    ELSE Combinations(keys, i) \o SubsetsFrom(keys, i - 1)

\* Mutant: the candidates are the targets' own region sets; no intersection
\* is offered.
rank_sets_own(a) ==
    LET keys    == Ascending(DOMAIN a)
        ranking == AppendAllNew(<<>>, a, keys)
    IN  Items(SortedByInt([i \in 1..Len(ranking) |->
            <<0 - Cardinality(ranking[i]), ranking[i]>>]))

rank_sets(a) ==
    LET keys    == Ascending(DOMAIN a)
        ranking == RankSubsets(<<>>, a, SubsetsFrom(keys, Len(keys)))
    IN  Items(SortedByInt([i \in 1..Len(ranking) |->
            <<0 - Cardinality(ranking[i]), ranking[i]>>]))

\* The leftover mapping of compute_deployment ("new").
Residual(initial, xset) ==
    LET keep == {account \in DOMAIN initial :
                    ~(xset \subseteq initial[account])
                    \/ Cardinality(initial[account] \ xset) > 0}
    IN  [account \in keep |->
            IF xset \subseteq initial[account]
            THEN initial[account] \ xset
            ELSE initial[account]]

\* Mutant: a target joins the batch when its regions overlap xset
\* (regions & xset) instead of containing it (regions >= xset).
compute_deployment_overlap(initial, xset) ==
    << [accounts |-> Ascending({account \in DOMAIN initial : initial[account] \cap xset # {}}),
        regions  |-> xset],
       [account \in {a \in DOMAIN initial : initial[a] \ xset # {}} |-> initial[account] \ xset] >>

\* compute_deployment returns (deployment, new).
compute_deployment(initial, xset) ==
    << [accounts |-> Ascending({account \in DOMAIN initial : xset \subseteq initial[account]}),
        regions  |-> xset],
       Residual(initial, xset) >>

\* A variant that takes the first candidate in rank order, whatever its cost.
Winner_first_ranked(costed_sets) ==
    costed_sets[1]

\* sorted(costed_sets, key=lambda x: x[0])[0]
Winner(costed_sets) ==
    SortedByInt(costed_sets)[1]

\* The cost of each candidate region set: the number of batches the planner
\* needs for what compute_deployment leaves over.
RECURSIVE generate_deployments(_)
CostedSets(rollout, ranked) ==
    LET usable == SelectSeq(ranked, LAMBDA xs : Cardinality(xs) > 0)
    IN  [i \in 1..Len(usable) |->
            <<Len(generate_deployments(compute_deployment(rollout, usable[i])[2])), usable[i]>>]

generate_deployments(rollout) ==
    IF Cardinality(DOMAIN rollout) > 1
    THEN With(compute_deployment(rollout, Winner(CostedSets(rollout, rank_sets(rollout)))[2]),
              LAMBDA step : <<step[1]>> \o generate_deployments(step[2]))
    ELSE LET keys == Ascending(DOMAIN rollout)
         IN  [i \in 1..Len(keys) |-> [accounts |-> <<keys[i]>>, regions |-> rollout[keys[i]]]]

\* sorted(coll, key=self.calculate_overrides_checksum)
SortedByChecksum(coll) ==
    Items(SortedByStr([i \in 1..Len(coll) |-> <<calculate_overrides_checksum(coll[i]), coll[i]>>]))

\* The keys itertools.groupby yields for a list sorted by that key.
RECURSIVE GroupKeys(_)
GroupKeys(sortedColl) ==
    IF sortedColl = <<>> THEN <<>>
    ELSE LET k    == calculate_overrides_checksum(Head(sortedColl))
             rest == GroupKeys(Tail(sortedColl))
         IN  IF rest # <<>> /\ Head(rest) = k THEN rest ELSE <<k>> \o rest

\* deployment_accounts.setdefault(xd['account'], set()).update(xd['regions'])
DeploymentAccounts(group_list) ==
    [account \in {group_list[i].account : i \in 1..Len(group_list)} |->
        UNION {group_list[i].regions : i \in {j \in 1..Len(group_list) : group_list[j].account = account}}]

\* One group of grouped_rollout: the override of its first entry and the
\* batches for the merged target -> regions mapping.
GroupDeployment(group_list) ==
    [override |-> group_list[1].override,
     accounts |-> generate_deployments(DeploymentAccounts(group_list))]

grouped_rollout(coll) ==
    LET sortedColl == SortedByChecksum(coll)
        keys       == GroupKeys(sortedColl)
    IN  [g \in 1..Len(keys) |->
            GroupDeployment(SelectSeq(sortedColl,
                LAMBDA xd : calculate_overrides_checksum(xd) = keys[g]))]

\* --------------------------------------------------------- classification

\* A rollout item of the configuration ('ou' instead of 'account' under the
\* organization strategy).
Item(account, regions, override) ==
    [account |-> account, regions |-> regions, override |-> override]

\* Mutant: each listed instance replaces the regions of its target instead
\* of being added to them, leaving one region per target.
retrieve_one(instances) ==
    [account \in {p[1] : p \in DOMAIN instances} |->
        {CHOOSE r \in {p[2] : p \in {q \in DOMAIN instances : q[1] = account}} : TRUE}]

\* retrieve(): list_stack_instances grouped by target.  instances is the
\* remote instance table, a function from <<target, region>> pairs.
retrieve(instances) ==
    [account \in {p[1] : p \in DOMAIN instances} |->
        {p[2] : p \in {q \in DOMAIN instances : q[1] = account}}]

\* Mutant: the region replaces the regions of the entry found instead of
\* being added to them.
find_or_add_account_replace(coll, account, region) ==
    LET matches == {i \in 1..Len(coll) :
                       coll[i].account = account.account /\ coll[i].override = account.override}
    IN  IF matches # {}
        THEN LET first == CHOOSE i \in matches : \A j \in matches : i <= j
             IN  [coll EXCEPT ![first].regions = {region}]
        ELSE Append(coll, [account EXCEPT !.regions = {region}])

\* find_or_add_account followed by rollout_account['regions'].add(region).
find_or_add_account(coll, account, region) ==
    LET matches == {i \in 1..Len(coll) :
                       coll[i].account = account.account /\ coll[i].override = account.override}
    IN  IF matches # {}
        THEN LET first == CHOOSE i \in matches : \A j \in matches : i <= j
             IN  [coll EXCEPT ![first].regions = @ \cup {region}]
        ELSE Append(coll, [account EXCEPT !.regions = {region}])

\* Mutant: an instance is always taken to need an update.
region_need_update_always(instances, account_id, region, overrides) == TRUE

\* Mutant: the two override lists are compared as they come, unsorted.
region_need_update_unsorted(instances, account_id, region, overrides) ==
    LET r == instances[<<account_id, region>>]
    IN  IF r.ParameterOverrides # overrides
        THEN TRUE
        ELSE IF r.Status # "CURRENT" THEN TRUE
        ELSE FALSE

\* region_need_update: describe_stack_instance of the pair, then compare.
region_need_update(instances, account_id, region, overrides) ==
    LET r == instances[<<account_id, region>>]
    IN  IF SortedByParameterKey(r.ParameterOverrides) # SortedByParameterKey(overrides)
        THEN TRUE
        ELSE IF r.Status # "CURRENT" THEN TRUE
        ELSE FALSE

\* The first entry of the list that find_or_add_account matches, 0 for none.
FirstMatch(coll, account) ==
    LET matches == {i \in 1..Len(coll) :
                       coll[i].account = account.account /\ coll[i].override = account.override}
    IN  IF matches # {} THEN CHOOSE i \in matches : \A j \in matches : i <= j ELSE 0

\* self.create.append(copy.copy(account)): the copy is shallow, its 'regions'
\* is the set object of the entry of the configuration being visited.
\* cu.shared records which entries of the create list share their region
\* set with which entry of the configuration.
AppendCopy(cu, account) ==
    [cu EXCEPT !.create = Append(@, account),
               !.shared = @ @@ (Len(cu.create) + 1 :> cu.at)]

\* find_or_add_account(where, account)['regions'].add(region): the region
\* is added to the set of the entry found, and so to the configuration
\* entry that shares that set, if one does.
AddRegion(cu, where, account, region) ==
    LET first  == FirstMatch(cu[where], account)
        config == IF where = "create" /\ first \in DOMAIN cu.shared
                  THEN [cu.config EXCEPT ![cu.shared[first]].regions = @ \cup {region}]
                  ELSE cu.config
    IN  [cu EXCEPT ![where] = find_or_add_account(@, account, region),
                   !.config = config]

\* The loop "for region in account['regions']" of set_create_or_update_account
\* over the regions still to visit; cu is the state of the pass: the create
\* and update lists, skip (the <<account, region, override>> the loop logs
\* as "is not updating"), the configuration and the index of the entry
\* being visited.
RECURSIVE AccountRegions(_, _, _, _, _)
AccountRegions(cu, stack_instances, instances, account, regions) ==
    IF regions = {} THEN cu
    ELSE LET region == CHOOSE r \in regions : TRUE
             next   ==
                 IF region \in stack_instances[account.account]
                 THEN IF ~region_need_update(instances, account.account, region, account.override)
                      THEN [cu EXCEPT !.skip = @ \cup {<<account.account, region, account.override>>}]
                      ELSE AddRegion(cu, "update", account, region)
                 ELSE AddRegion(cu, "create", account, region)
         IN  AccountRegions(next, stack_instances, instances, account, regions \ {region})

\* Mutant: an entry with regions is created whole whether or not its target
\* has instances.
set_create_or_update_account_whole(cu, stack_instances, instances, account) ==
    IF Cardinality(account.regions) > 0
    THEN [cu EXCEPT !.create = Append(@, account)]
    ELSE cu

\* Mutant: an entry whose target has no instance is passed over.
set_create_or_update_account_present(cu, stack_instances, instances, account) ==
    IF account.account \notin DOMAIN stack_instances
    THEN cu
    ELSE AccountRegions(cu, stack_instances, instances, account, account.regions)

set_create_or_update_account(cu, stack_instances, instances, account) ==
    IF account.account \notin DOMAIN stack_instances /\ Cardinality(account.regions) > 0
    THEN AppendCopy(cu, account)
    ELSE AccountRegions(cu, stack_instances, instances, account, account.regions)

\* Mutant: only the first desired entry of the target is subtracted, not the
\* union of all of them.
set_delete_account_first(delete, rollout_config, account, regions) ==
    LET rollout_accounts == SelectSeq(rollout_config, LAMBDA xa : xa.account = account)
        rollout_regions  == IF Len(rollout_accounts) > 0 THEN rollout_accounts[1].regions ELSE {}
        delete_regions   == regions \ rollout_regions
    IN  IF Cardinality(delete_regions) > 0
        THEN Append(delete, Item(account, delete_regions, <<>>))
        ELSE delete

set_delete_account(delete, rollout_config, account, regions) ==
    LET rollout_accounts == SelectSeq(rollout_config, LAMBDA xa : xa.account = account)
        rollout_regions  == UNION {rollout_accounts[i].regions : i \in 1..Len(rollout_accounts)}
        delete_regions   == regions \ rollout_regions
    IN  IF Cardinality(delete_regions) > 0
        THEN Append(delete, Item(account, delete_regions, <<>>))
        ELSE delete

\* Mutant: the list keeps what an earlier call left in it.
clear_keep(list) == list

\* list.clear()
clear(list) == <<>>

\* The state a create/update pass starts in; self is the rollout object
\* ([rollout_config, create, update, delete]).
PassStart(self) ==
    [create |-> clear(self.create), update |-> clear(self.update), skip |-> {},
     shared |-> <<>>, config |-> self.rollout_config, at |-> 0]

\* for rollout_account in self.rollout_config, from the k-th entry on.
RECURSIVE CollateCreateUpdate(_, _, _, _)
CollateCreateUpdate(cu, stack_instances, instances, k) ==
    IF k > Len(cu.config) THEN cu
    ELSE CollateCreateUpdate(
             set_create_or_update_account([cu EXCEPT !.at = k], stack_instances, instances, cu.config[k]),
             stack_instances, instances, k + 1)

\* StackSetRollout.collate_instances_create_update, after retrieve().
collate_instances_create_update(self, stack_instances, instances) ==
    CollateCreateUpdate(PassStart(self), stack_instances, instances, 1)

RECURSIVE CollateDelete(_, _, _, _)
CollateDelete(delete, rollout_config, stack_instances, accounts) ==
    IF accounts = <<>> THEN delete
    ELSE CollateDelete(
             set_delete_account(delete, rollout_config, Head(accounts), stack_instances[Head(accounts)]),
             rollout_config, stack_instances, Tail(accounts))

\* StackSetRollout.collate_instances_delete, after retrieve().
collate_instances_delete(self, stack_instances) ==
    CollateDelete(clear(self.delete), self.rollout_config, stack_instances,
                  Ascending(DOMAIN stack_instances))

\* StackSetRollout.rollout_delete: the delete list and its batches.
rollout_delete(self, instances) ==
    With(collate_instances_delete(self, retrieve(instances)),
         LAMBDA delete : [delete |-> delete, groups |-> grouped_rollout(delete)])

\* StackSetRollout.rollout_create_update: the create and update lists and
\* their batches.
rollout_create_update(self, instances) ==
    With(collate_instances_create_update(self, retrieve(instances), instances),
         LAMBDA cu : [create |-> cu.create, update |-> cu.update, skip |-> cu.skip,
                      rollout_config |-> cu.config,
                      create_groups |-> grouped_rollout(cu.create),
                      update_groups |-> grouped_rollout(cu.update)])

\* ------------------------------------------- organization classification

\* Mutant: an organizational unit's instance is never taken to need an update.
ou_region_need_update_never(ou_id, region, overrides) == FALSE

ou_region_need_update(ou_id, region, overrides) == TRUE

find_or_add_ou(coll, ou, region) == find_or_add_account(coll, ou, region)

\* find_or_add_ou(where, rollout_item)['regions'].add(region)
AddRegionOu(cu, where, ou, region) ==
    LET first  == FirstMatch(cu[where], ou)
        config == IF where = "create" /\ first \in DOMAIN cu.shared
                  THEN [cu.config EXCEPT ![cu.shared[first]].regions = @ \cup {region}]
                  ELSE cu.config
    IN  [cu EXCEPT ![where] = find_or_add_ou(@, ou, region),
                   !.config = config]

RECURSIVE OuRegions(_, _, _, _)
OuRegions(cu, stack_instances_by_ou, rollout_item, regions) ==
    IF regions = {} THEN cu
    ELSE LET region == CHOOSE r \in regions : TRUE
             next   ==
                 IF region \in stack_instances_by_ou[rollout_item.account]
                 THEN IF ~ou_region_need_update(rollout_item.account, region, rollout_item.override)
                      THEN [cu EXCEPT !.skip = @ \cup {<<rollout_item.account, region, rollout_item.override>>}]
                      ELSE AddRegionOu(cu, "update", rollout_item, region)
                 ELSE AddRegionOu(cu, "create", rollout_item, region)
         IN  OuRegions(next, stack_instances_by_ou, rollout_item, regions \ {region})

\* Mutant: an organizational unit without instances goes to the update list.
set_create_or_update_ou_update(cu, stack_instances_by_ou, rollout_item) ==
    IF rollout_item.account \notin DOMAIN stack_instances_by_ou /\ Cardinality(rollout_item.regions) > 0
    THEN [cu EXCEPT !.update = Append(@, rollout_item)]
    ELSE OuRegions(cu, stack_instances_by_ou, rollout_item, rollout_item.regions)

set_create_or_update_ou(cu, stack_instances_by_ou, rollout_item) ==
    IF rollout_item.account \notin DOMAIN stack_instances_by_ou /\ Cardinality(rollout_item.regions) > 0
    THEN AppendCopy(cu, rollout_item)
    ELSE OuRegions(cu, stack_instances_by_ou, rollout_item, rollout_item.regions)

set_delete_ou(delete_ou, rollout_config, ou, regions) ==
    set_delete_account(delete_ou, rollout_config, ou, regions)

RECURSIVE CollateCreateUpdateOu(_, _, _)
CollateCreateUpdateOu(cu, stack_instances_by_ou, k) ==
    IF k > Len(cu.config) THEN cu
    ELSE CollateCreateUpdateOu(
             set_create_or_update_ou([cu EXCEPT !.at = k], stack_instances_by_ou, cu.config[k]),
             stack_instances_by_ou, k + 1)

RECURSIVE CollateDeleteOu(_, _, _, _)
CollateDeleteOu(delete_ou, rollout_config, stack_instances_by_ou, ous) ==
    IF ous = <<>> THEN delete_ou
    ELSE CollateDeleteOu(
             set_delete_ou(delete_ou, rollout_config, Head(ous), stack_instances_by_ou[Head(ous)]),
             rollout_config, stack_instances_by_ou, Tail(ous))

\* StackSetOrganizationRollout.rollout_delete returns delete_ou itself.
rollout_delete_ou(self, instances) ==
    With(CollateDeleteOu(clear(self.delete), self.rollout_config, retrieve(instances),
                         Ascending(DOMAIN retrieve(instances))),
         LAMBDA delete_ou : [delete |-> delete_ou, groups |-> delete_ou])

\* StackSetOrganizationRollout.rollout_create_update returns the two lists.
rollout_create_update_ou(self, instances) ==
    With(CollateCreateUpdateOu(PassStart(self), retrieve(instances), 1),
         LAMBDA cu : [create |-> cu.create, update |-> cu.update, skip |-> cu.skip,
                      rollout_config |-> cu.config,
                      create_groups |-> cu.create, update_groups |-> cu.update])

\* ------------------------------------------------------- calls of a plan

\* The batches of a plan as the list of remote calls the controller makes
\* for it, in the order of its loops.  kind is "create", "update" or "delete".
RECURSIVE GroupCalls(_, _)
GroupCalls(kind, groups) ==
    IF groups = <<>> THEN <<>>
    ELSE LET xg == Head(groups)
         IN  [i \in 1..Len(xg.accounts) |->
                 [kind     |-> kind,
                  accounts |-> xg.accounts[i].accounts,
                  regions  |-> xg.accounts[i].regions,
                  override |-> IF kind = "delete" THEN <<>> ELSE xg.override]]
             \o GroupCalls(kind, Tail(groups))

\* The calls of rollout_organization / cleanup_organization: one per item.
OuCalls(kind, items) ==
    [i \in 1..Len(items) |->
        [kind     |-> kind,
         accounts |-> <<items[i].account>>,
         regions  |-> items[i].regions,
         override |-> IF kind = "delete" THEN <<>> ELSE items[i].override]]

PlanCalls(strat, kind, groups) ==
    IF strat = "organization" THEN OuCalls(kind, groups) ELSE GroupCalls(kind, groups)

\* The (target, region) pairs a call or a batch names.
CallPairs(call) == {<<call.accounts[i], r>> : i \in 1..Len(call.accounts), r \in call.regions}

\* ------------------------------------------------------------------ state

VARIABLES
    strategy,        \* stack_parameters.rollout_strategy
    rollout_config,  \* stack_parameters.rollout: the desired entries
    found,           \* existing_stack: the description find_existing_stackset returned
    wanted,          \* format_parameters(), the template text, formatted_stack_tags
    has_rollout,     \* stack_parameters.rollout is not None: stackset_rollout exists
    existing_stack,  \* CloudformationStackSet.existing_stack is not None
    stack_instances, \* StackSetRollout.stack_instances (stack_instances_by_ou)
    create,          \* StackSetRollout.create (create_ou)
    update,          \* StackSetRollout.update (update_ou)
    delete,          \* StackSetRollout.delete (delete_ou)
    skip,            \* the <<target, region, override>> logged as "is not updating"
    create_groups,   \* the create plan rollout_create_update returned
    update_groups,   \* the update plan rollout_create_update returned
    delete_groups,   \* the delete plan rollout_delete returned
    pc,              \* where the controller is
    ret,             \* where wait_pending_operations returns to
    plan,            \* the calls of the attempt in progress
    todo,            \* the calls of the attempt still to issue
    stackset,        \* remote: the stack-set exists
    described,       \* remote: the Parameters, TemplateBody and Tags of the stack-set
    instances,       \* remote: <<target, region>> -> [ParameterOverrides, Status]
    operation,       \* remote: the operations in status RUNNING (at most one)
    calls,           \* history: the mutating calls issued so far, with their results
    attempt,         \* history: how many times a retried function has been entered
    retry,           \* history: what a contention error still obliges the controller to do
    awaiting,        \* history: a call was accepted and no poll has yet shown the stack-set idle
    stale,           \* history: the plan in hand when the last contention error was raised
    foreign,         \* history: the pairs another actor has created or deleted
    others,          \* how many operations other actors have started on the stack-set
    coll,            \* planner: the list handed to grouped_rollout
    deployments,     \* planner: what grouped_rollout returned
    answer,          \* what the function applied on its own returned
    runs,            \* how the earlier runs of the program on the stack-set ended
    declared,        \* run: the stacks of the environment, in declaration order
    stacks,          \* run: StackParser.stacks
    events,          \* run: history of the deploy() and teardown() calls of the run
    command,         \* run: the command of the command line
    queue,           \* run: the items the loop over StackParser.stacks has still to visit
    raised,          \* history: the error of the last failing call, the answer to the last poll
    error            \* the error that left deploy() or teardown()

rolloutVars == <<stack_instances, create, update, delete, skip,
                 create_groups, update_groups, delete_groups>>
configVars  == <<strategy, rollout_config, found, wanted, has_rollout, existing_stack>>
remoteVars  == <<stackset, described, instances, operation, foreign>>
controlVars == <<pc, ret, plan, todo>>
historyVars == <<calls, attempt, retry, awaiting, stale>>
runVars     == <<declared, stacks, events, command, queue>>
errorVars   == <<raised, error>>
quietVars   == <<coll, deployments, answer, runs, runVars>>
plannerVars == <<quietVars, errorVars>>

vars == <<strategy, rollout_config, found, wanted, has_rollout, existing_stack,
          stack_instances, create, update, delete, skip,
          create_groups, update_groups, delete_groups,
          pc, ret, plan, todo, stackset, described, instances, operation,
          calls, attempt, retry, awaiting, stale, foreign, others, coll, deployments, answer,
          runs, declared, stacks, events, command, queue, raised, error>>

\* The rollout object (stackset_rollout): its configuration and its lists.
Self ==
    [rollout_config |-> rollout_config, create |-> create, update |-> update, delete |-> delete]

\* ----------------------------------------------------------------- bounds

\* The longest rollout configuration (number of desired entries).
MaxEntries == 2

\* How many operations another actor starts on the stack-set during a run.
MaxOther == 1

Targets == {111, 222}
PlannerTargets == {111, 222, 333}
Regions == {"ap-southeast-2", "eu-west-1"}
PlannerRegions == {"ap-southeast-2", "eu-west-1", "us-east-1"}
Pairs == Targets \X Regions

P1 == Param(<<"a">>, <<"1">>)
P2 == Param(<<"b">>, <<"1">>)

\* The overrides of the desired entries: none, and one set of two
\* parameters written in both orders.
DesiredOverrides == {<<>>, <<P1, P2>>, <<P2, P1>>}

\* What an instance found on the remote side may carry.
InstanceStates ==
    {[ParameterOverrides |-> <<>>,       Status |-> "CURRENT"],
     [ParameterOverrides |-> <<P1, P2>>, Status |-> "CURRENT"],
     [ParameterOverrides |-> <<P1, P2>>, Status |-> "OUTDATED"]}

InstanceTables(states) == UNION {[ps -> states] : ps \in SUBSET Pairs}

\* Desired entries: a target, a region set and an override; an entry without
\* regions carries no override.
Entries ==
    {Item(t, rs, o) : t \in Targets, rs \in SUBSET Regions \ {{}}, o \in DesiredOverrides}
    \cup {Item(t, {}, <<>>) : t \in Targets}

Configs(entries, n) == UNION {[1..k -> entries] : k \in 0..n}

Idle == [by |-> "none", kind |-> "none", pairs |-> {}]

\* What the program wants of the stack-set: the parameters of
\* format_parameters(), the text of the template, formatted_stack_tags.
DefaultWanted == [Parameters |-> <<P1, P2>>, template |-> "x", Tags |-> <<>>]

\* The description of a stack-set created or updated with what is wanted:
\* the Parameters, TemplateURL and Tags of create_stack_set / update_stack_set.
Deployed(w) == [Parameters |-> w.Parameters, TemplateBody |-> w.template, Tags |-> w.Tags]

\* The description held for a stack-set that does not exist.
Nothing == [Parameters |-> <<>>, TemplateBody |-> "", Tags |-> <<>>]

\* A stack-set with a rollout configuration that carries what is wanted.
Unchanged ==
    /\ wanted = DefaultWanted
    /\ described = Deployed(DefaultWanted)
    /\ found = Deployed(DefaultWanted)
    /\ has_rollout = TRUE

PassiveInit ==
    /\ stack_instances = <<>> /\ create = <<>> /\ update = <<>> /\ delete = <<>>
    /\ skip = {} /\ create_groups = <<>> /\ update_groups = <<>> /\ delete_groups = <<>>
    /\ ret = "none" /\ plan = <<>> /\ todo = <<>>
    /\ operation = Idle /\ foreign = {}
    /\ calls = <<>> /\ attempt = 0 /\ retry = "none" /\ awaiting = FALSE /\ stale = <<>>
    /\ answer = FALSE
    /\ runs = <<>>
    /\ declared = <<>> /\ stacks = <<>> /\ events = <<>>
    /\ command = "none" /\ queue = <<>>
    /\ raised = "none" /\ error = "none"

\* ---------------------------------------------------------------- planner
\* The planner on its own: grouped_rollout applied to a list of entries over
\* three targets and three regions.

PlannerColls ==
    LET per(t) == {<<>>} \cup {<<Item(t, rs, o)>> :
                         rs \in SUBSET PlannerRegions \ {{}}, o \in {<<>>, <<P1, P2>>}}
    IN  {a \o b \o c : a \in per(111), b \in per(222), c \in per(333)}

InitPlanner ==
    /\ PassiveInit
    /\ strategy = "accounts" /\ rollout_config = <<>> /\ Unchanged
    /\ existing_stack = FALSE /\ stackset = FALSE /\ instances = <<>>
    /\ others = 0
    /\ pc = "planner"
    /\ coll \in PlannerColls
    /\ deployments = <<>>

GroupedRollout ==
    /\ pc = "planner"
    /\ pc' = "planned"
    /\ deployments' = grouped_rollout(coll)
    /\ UNCHANGED <<configVars, rolloutVars, remoteVars, historyVars, others,
                   ret, plan, todo, coll, answer, runs, runVars, errorVars>>

NextPlanner == GroupedRollout

SpecPlanner == InitPlanner /\ [][NextPlanner]_vars

\* --------------------------------------------------------- classification
\* The rollout object on its own, as the tests drive it: rollout_delete and
\* then rollout_create_update against one snapshot of the remote instances.

InitClassify ==
    /\ PassiveInit
    /\ strategy = "accounts"
    /\ rollout_config \in Configs(Entries, MaxEntries)
    /\ Unchanged
    /\ existing_stack = TRUE /\ stackset = TRUE
    /\ instances \in InstanceTables(InstanceStates)
    /\ others = 0
    /\ pc = "rollout_delete"
    /\ coll = <<>> /\ deployments = <<>>

\* A call of rollout_delete() on the rollout object.
CallRolloutDelete(from, to) ==
    /\ pc \in from
    /\ pc' = to
    /\ \E d \in {rollout_delete(Self, instances)} :
           /\ stack_instances' = retrieve(instances)
           /\ delete' = d.delete
           /\ delete_groups' = d.groups
    /\ UNCHANGED <<configVars, remoteVars, historyVars, plannerVars, others,
                   create, update, skip, create_groups, update_groups, ret, plan, todo>>

\* A call of rollout_create_update() on the rollout object.
CallRolloutCreateUpdate(from, to) ==
    /\ pc \in from
    /\ pc' = to
    /\ \E cu \in {rollout_create_update(Self, instances)} :
           /\ stack_instances' = retrieve(instances)
           /\ create' = cu.create
           /\ update' = cu.update
           /\ skip' = cu.skip
           /\ create_groups' = cu.create_groups
           /\ update_groups' = cu.update_groups
           /\ rollout_config' = cu.rollout_config
    /\ UNCHANGED <<strategy, found, wanted, has_rollout, existing_stack,
                   remoteVars, historyVars, plannerVars, others,
                   delete, delete_groups, ret, plan, todo>>

RolloutDelete ==
    /\ pc = "rollout_delete"
    /\ CallRolloutDelete({"rollout_delete"}, "rollout_create_update")

RolloutCreateUpdate ==
    /\ pc = "rollout_create_update"
    /\ CallRolloutCreateUpdate({"rollout_create_update"}, "classified")

NextClassify == RolloutDelete \/ RolloutCreateUpdate

SpecClassify == InitClassify /\ [][NextClassify]_vars

\* -------------------------------------------------------------- controller
\* CloudformationStackSet.deploy against the remote service.  The remote side
\* accepts a mutating call on a stack-set only while none of its operations
\* is running (OperationInProgressException otherwise); an accepted call
\* starts an operation, which runs to success.  A created or updated instance
\* is listed from the call on, OUTDATED until the operation ends; a deleted
\* instance is listed until the operation ends.  The reads of one collate_*
\* (list_stack_instances and the describe_stack_instance calls) are taken as
\* one snapshot, and listings as a single page.

StackSetCall(kind) == [kind |-> kind, accounts |-> <<>>, regions |-> {}, override |-> <<>>]

\* An entry of the call history.
Issued(call, result, n) == [call |-> call, result |-> result, attempt |-> n]

\* Mutant: an existing stack-set is updated without its clean-up.
deploy_no_cleanup(existing) == IF existing THEN "update_stackset" ELSE "create_stackset"

\* deploy: which function runs first.
deploy(existing) == IF existing THEN "cleanup" ELSE "create_stackset"

\* Mutant: the retried function resumes its loop with the batches it had.
retry_pending_resume(f, at) == at

\* Mutant: after the wait the controller polls again instead of running f.
retry_pending_poll(f, at) == "wait"

\* retry_pending: after the wait the wrapped function f is run again from its
\* first statement; at is the statement that raised.
retry_pending(f, at) == f

\* Mutant: the next batch is submitted without polling.
AfterCall_no_wait(loop) == loop

\* Where the controller goes after a call was accepted: into
\* wait_pending_operations, to come back to the loop.
AfterCall(loop) == "wait"

\* The statement after a loop over the batches still to issue.
LoopNext(loop, batches) ==
    IF batches # <<>> THEN loop
    ELSE IF loop = "cleanup_call" THEN "update_stackset"
    ELSE IF loop = "wipe_out_call" THEN "delete_stackset"
    ELSE "done"

\* Mutant: the update batches are submitted before the create batches.
RolloutCalls_update_first(strat, cu) ==
    PlanCalls(strat, "update", cu.update_groups) \o PlanCalls(strat, "create", cu.create_groups)

\* rollout_accounts / rollout_organization: the calls of the two loops.
RolloutCalls(strat, cu) ==
    PlanCalls(strat, "create", cu.create_groups) \o PlanCalls(strat, "update", cu.update_groups)

\* cleanup_stack_instances / cleanup_organization: the calls of the loop.
CleanupCalls(strat, d) == PlanCalls(strat, "delete", d.groups)

\* The remote instance table once a create or update call was accepted.
Accepted(table, call) ==
    IF call.kind \in {"create", "update"}
    THEN [p \in DOMAIN table \cup CallPairs(call) |->
             IF p \in CallPairs(call)
             THEN [ParameterOverrides |-> call.override, Status |-> "OUTDATED"]
             ELSE table[p]]
    ELSE table

\* The remote instance table once an operation has ended.
Completed(table, op) ==
    IF op.kind = "delete"
    THEN [p \in DOMAIN table \ op.pairs |-> table[p]]
    ELSE [p \in DOMAIN table |->
             IF p \in op.pairs THEN [table[p] EXCEPT !.Status = "CURRENT"] ELSE table[p]]

\* update_stack_instances and delete_stack_instances refuse an instance that
\* does not exist (StackInstanceNotFoundException).
Refused(table, call) ==
    call.kind \in {"update", "delete"} /\ ~(CallPairs(call) \subseteq DOMAIN table)

Running == operation # Idle

\* Mutant: an error other than contention leaves as another error.
reraise_wrapped(code) == "RuntimeError"

\* retry_pending: an error other than OperationInProgressException is raised
\* again as it is; so is an error no handler catches.
reraise(code) == code

\* Mutant: the poll lets StackSetNotFoundException through.
swallowed_none(code) == FALSE

\* wait_pending_operations: the error the poll swallows.
swallowed(code) == code = "StackSetNotFoundException"

\* deploy(): the branch on existing_stack.
Deploy ==
    /\ pc = "deploy"
    /\ pc' = deploy(existing_stack)
    /\ UNCHANGED <<configVars, rolloutVars, remoteVars, historyVars, plannerVars, others,
                   ret, plan, todo>>

\* create_stackset(): create_stack_set, then wait_pending_operations.
CreateStackSet ==
    /\ pc = "create_stackset"
    /\ has_rollout
    /\ IF stackset
       THEN \* NameAlreadyExistsException
            /\ pc' = "failed"
            /\ raised' = "NameAlreadyExistsException"
            /\ error' = reraise("NameAlreadyExistsException")
            /\ UNCHANGED <<stackset, described, calls, awaiting, ret>>
       ELSE /\ stackset' = TRUE
            /\ described' = Deployed(wanted)
            /\ calls' = Append(calls, Issued(StackSetCall("create_stack_set"), "ok", attempt + 1))
            /\ awaiting' = TRUE
            /\ pc' = "wait"
            /\ ret' = "rollout"
            /\ UNCHANGED errorVars
    /\ attempt' = attempt + 1
    /\ UNCHANGED <<configVars, rolloutVars, quietVars, others, instances, operation, foreign,
                   retry, stale, plan, todo>>

\* cleanup_stackset(): rollout_delete(), the start of an attempt of
\* cleanup_stack_instances / cleanup_organization.
CleanupStart ==
    /\ pc = "cleanup"
    /\ has_rollout /\ stackset
    /\ \E d \in {IF strategy = "organization"
                 THEN rollout_delete_ou(Self, instances)
                 ELSE rollout_delete(Self, instances)} :
         \E cs \in {CleanupCalls(strategy, d)} :
           /\ stack_instances' = retrieve(instances)
           /\ delete' = d.delete
           /\ delete_groups' = d.groups
           /\ plan' = cs
           /\ todo' = cs
           /\ pc' = LoopNext("cleanup_call", cs)
    /\ attempt' = attempt + 1
    /\ retry' = IF retry = "must_replan" THEN "none" ELSE retry
    /\ UNCHANGED <<configVars, remoteVars, plannerVars, others, calls, awaiting, stale,
                   create, update, skip, create_groups, update_groups, ret>>

\* rollout_stackset(): rollout_create_update(), the start of an attempt of
\* rollout_accounts / rollout_organization.
RolloutStart ==
    /\ pc = "rollout"
    /\ has_rollout /\ stackset
    /\ \E cu \in {IF strategy = "organization"
                  THEN rollout_create_update_ou(Self, instances)
                  ELSE rollout_create_update(Self, instances)} :
         \E cs \in {RolloutCalls(strategy, cu)} :
           /\ stack_instances' = retrieve(instances)
           /\ create' = cu.create
           /\ update' = cu.update
           /\ skip' = cu.skip
           /\ create_groups' = cu.create_groups
           /\ update_groups' = cu.update_groups
           /\ rollout_config' = cu.rollout_config
           /\ plan' = cs
           /\ todo' = cs
           /\ pc' = LoopNext("rollout_call", cs)
    /\ attempt' = attempt + 1
    /\ retry' = IF retry = "must_replan" THEN "none" ELSE retry
    /\ UNCHANGED <<strategy, found, wanted, has_rollout, existing_stack,
                   remoteVars, plannerVars, others, calls, awaiting, stale,
                   delete, delete_groups, ret>>

\* One iteration of a loop over batches: the mutating call for the first
\* batch still to issue, then wait_pending_operations.  start is the first
\* statement of the function the loop belongs to.
Submit(loop, start) ==
    /\ pc = loop
    /\ todo # <<>>
    /\ stackset
    /\ LET call == Head(todo)
       IN  IF Running
           THEN \* OperationInProgressException, caught by retry_pending
                /\ calls' = Append(calls, Issued(call, "in_progress", attempt))
                /\ retry' = "must_wait"
                /\ stale' = plan
                /\ pc' = "wait"
                /\ ret' = retry_pending(start, loop)
                /\ UNCHANGED <<instances, operation, awaiting, todo, errorVars>>
           ELSE IF Refused(instances, call)
           THEN /\ calls' = Append(calls, Issued(call, "error", attempt))
                /\ pc' = "failed"
                /\ raised' = "StackInstanceNotFoundException"
                /\ error' = reraise("StackInstanceNotFoundException")
                /\ UNCHANGED <<instances, operation, awaiting, todo, retry, stale, ret>>
           ELSE /\ calls' = Append(calls, Issued(call, "ok", attempt))
                /\ instances' = Accepted(instances, call)
                /\ operation' = [by |-> "self", kind |-> call.kind, pairs |-> CallPairs(call)]
                /\ awaiting' = TRUE
                /\ todo' = Tail(todo)
                /\ pc' = AfterCall(loop)
                /\ ret' = loop
                /\ UNCHANGED <<retry, stale, errorVars>>
    /\ UNCHANGED <<configVars, rolloutVars, quietVars, others, stackset, described, foreign,
                   attempt, plan>>

\* cleanup_stack_instances / cleanup_organization: delete_stack_instances.
CleanupCall == Submit("cleanup_call", "cleanup")

\* rollout_accounts / rollout_organization: create_stack_instances and
\* update_stack_instances.
RolloutCall == Submit("rollout_call", "rollout")

\* CloudformationTemplateBody.calculate_checksum: the SHA-1 digest of the
\* text, taken as free of collisions.
calculate_checksum(text) == <<"sha1", text>>

\* Mutant: the parameters are compared in the order they are listed.
stackset_need_update_unsorted(existing, stack_parameters, response) ==
    \/ existing.Parameters # stack_parameters.Parameters
    \/ calculate_checksum(existing.TemplateBody) # calculate_checksum(stack_parameters.template)
    \/ response.Tags # stack_parameters.Tags

\* stackset_need_update: existing is existing_stack, response what
\* tags_need_update has describe_stack_set answer.
stackset_need_update(existing, stack_parameters, response) ==
    LET parameters_changed ==
            SortedByParameterKey(existing.Parameters)
                # SortedByParameterKey(stack_parameters.Parameters)
        template_changed ==
            calculate_checksum(existing.TemplateBody)
                # calculate_checksum(stack_parameters.template)
        tags_changed == response.Tags # stack_parameters.Tags
    IN  parameters_changed \/ template_changed \/ tags_changed

\* update_stackset(): stackset_need_update().
StackSetNeedUpdate ==
    /\ pc = "update_stackset"
    /\ stackset
    /\ pc' = IF stackset_need_update(found, wanted, described)
             THEN "update_stackset_call" ELSE "rollout"
    /\ attempt' = attempt + 1
    /\ retry' = IF retry = "must_replan" THEN "none" ELSE retry
    /\ UNCHANGED <<configVars, rolloutVars, remoteVars, plannerVars, others,
                   calls, awaiting, stale, ret, plan, todo>>

\* update_stackset(): update_stack_set, then wait_pending_operations.
UpdateStackSet ==
    /\ pc = "update_stackset_call"
    /\ has_rollout /\ stackset
    /\ LET call == StackSetCall("update_stack_set")
       IN  IF Running
           THEN /\ calls' = Append(calls, Issued(call, "in_progress", attempt))
                /\ retry' = "must_wait"
                /\ stale' = plan
                /\ pc' = "wait"
                /\ ret' = retry_pending("update_stackset", "update_stackset_call")
                /\ UNCHANGED <<instances, operation, awaiting, described>>
           ELSE /\ calls' = Append(calls, Issued(call, "ok", attempt))
                /\ instances' = [p \in DOMAIN instances |->
                                    [instances[p] EXCEPT !.Status = "OUTDATED"]]
                /\ operation' = [by |-> "self", kind |-> "stackset", pairs |-> DOMAIN instances]
                /\ described' = Deployed(wanted)
                /\ awaiting' = TRUE
                /\ pc' = "wait"
                /\ ret' = "rollout"
                /\ UNCHANGED <<retry, stale>>
    /\ UNCHANGED <<strategy, rollout_config, found, wanted, has_rollout, existing_stack,
                   rolloutVars, plannerVars, others, stackset, foreign, attempt, plan, todo>>

\* wait_pending_operations(): the poll of list_stack_set_operations that
\* finds nothing RUNNING or STOPPING, or is answered StackSetNotFoundException.
\* A poll that finds an operation sleeps and polls again, changing nothing.
WaitPendingOperations ==
    /\ pc = "wait"
    /\ ~stackset \/ ~Running
    /\ \E code \in {IF stackset THEN "none" ELSE "StackSetNotFoundException"} :
         /\ raised' = code
         /\ IF code = "none" \/ swallowed(code)
            THEN /\ pc' = IF ret \in {"cleanup_call", "rollout_call", "wipe_out_call"}
                          THEN LoopNext(ret, todo) ELSE ret
                 /\ awaiting' = FALSE
                 /\ retry' = IF retry = "must_wait" THEN "must_replan" ELSE retry
                 /\ UNCHANGED error
            ELSE /\ pc' = "failed"
                 /\ error' = reraise(code)
                 /\ UNCHANGED <<awaiting, retry>>
    /\ UNCHANGED <<configVars, rolloutVars, remoteVars, quietVars, others,
                   calls, attempt, stale, ret, plan, todo>>

\* The errors of the remote service the model does not derive from its state.
OtherErrors == {"AccessDenied"}

\* Any remote call may raise an error other than the two the controller
\* handles; it propagates out of deploy() or teardown().
Fatal ==
    /\ pc \in {"create_stackset", "cleanup", "cleanup_call", "update_stackset",
               "update_stackset_call", "rollout", "rollout_call", "wait",
               "wipe_out", "wipe_out_call", "delete_stackset"}
    /\ has_rollout \/ pc \notin {"create_stackset", "cleanup", "update_stackset_call", "rollout"}
    /\ pc' = "failed"
    /\ \E code \in OtherErrors :
         /\ raised' = code
         /\ error' = reraise(code)
    /\ UNCHANGED <<configVars, rolloutVars, remoteVars, historyVars, quietVars, others,
                   ret, plan, todo>>

\* The stack-set is gone when the controller lists, describes or changes it:
\* StackSetNotFoundException, which only the poll swallows.
NotFound ==
    /\ ~stackset
    /\ \/ pc \in {"update_stackset", "wipe_out", "wipe_out_call", "delete_stackset"}
       \/ /\ has_rollout
          /\ pc \in {"cleanup", "cleanup_call", "update_stackset_call", "rollout", "rollout_call"}
    /\ pc = "cleanup_call" \/ pc = "rollout_call" \/ pc = "wipe_out_call" => todo # <<>>
    /\ pc' = "failed"
    /\ raised' = "StackSetNotFoundException"
    /\ error' = reraise("StackSetNotFoundException")
    /\ UNCHANGED <<configVars, rolloutVars, remoteVars, historyVars, quietVars, others,
                   ret, plan, todo>>

\* The remote side: the running operation ends.
OperationEnds ==
    /\ Running
    /\ instances' = Completed(instances, operation)
    /\ operation' = Idle
    /\ UNCHANGED <<configVars, rolloutVars, controlVars, historyVars, plannerVars, others,
                   stackset, described, foreign>>

\* The pairs and the override another actor works with.
OtherPairs == {<<111, "ap-southeast-2">>}

\* Another actor starts an operation on the stack-set: one that touches no
\* instance (a drift detection, say), the creation of an instance or the
\* deletion of one.
OtherActor ==
    /\ stackset /\ ~Running /\ others < MaxOther
    /\ pc \notin {"done", "failed"}
    /\ others' = others + 1
    /\ \/ /\ operation' = [by |-> "other", kind |-> "none", pairs |-> {}]
          /\ UNCHANGED <<instances, foreign>>
       \/ \E p \in OtherPairs \ DOMAIN instances :
            /\ operation' = [by |-> "other", kind |-> "create", pairs |-> {p}]
            /\ instances' = Accepted(instances,
                                [kind |-> "create", accounts |-> <<p[1]>>,
                                 regions |-> {p[2]}, override |-> <<>>])
            /\ foreign' = foreign \cup {p}
       \/ \E p \in OtherPairs \cap DOMAIN instances :
            /\ operation' = [by |-> "other", kind |-> "delete", pairs |-> {p}]
            /\ foreign' = foreign \cup {p}
            /\ UNCHANGED instances
    /\ UNCHANGED <<configVars, rolloutVars, controlVars, historyVars, plannerVars,
                   stackset, described>>

\* The controller on a quiet stack-set: deploy() with no other actor, over
\* both strategies.
QuietEntries ==
    {Item(t, rs, o) : t \in Targets, rs \in SUBSET Regions \ {{}}, o \in {<<>>, <<P2, P1>>}}
    \cup {Item(t, {}, <<>>) : t \in Targets}

\* A stack-set that carries what is wanted, and one with another template.
TemplateDiffs ==
    {<<Deployed(DefaultWanted), DefaultWanted>>,
     <<Deployed(DefaultWanted), [DefaultWanted EXCEPT !.template = "y"]>>}

\* diffs: the pairs of what an existing stack-set carries and what is wanted.
InitController(configs, tables, diffs) ==
    /\ PassiveInit
    /\ strategy \in {"accounts", "organization"}
    /\ rollout_config \in configs
    /\ has_rollout = TRUE
    /\ \/ /\ stackset = TRUE
          /\ instances \in tables
          /\ \E d \in diffs : described = d[1] /\ wanted = d[2]
       \/ /\ stackset = FALSE
          /\ instances = <<>>
          /\ described = Nothing
          /\ wanted = DefaultWanted
    /\ found = described
    /\ existing_stack = stackset
    /\ pc = "deploy"
    /\ coll = <<>> /\ deployments = <<>>

InitQuiet ==
    /\ InitController(Configs(QuietEntries, MaxEntries), InstanceTables(InstanceStates), TemplateDiffs)
    /\ others = 0

NextQuiet ==
    \/ Deploy
    \/ CreateStackSet
    \/ CleanupStart
    \/ CleanupCall
    \/ StackSetNeedUpdate
    \/ UpdateStackSet
    \/ RolloutStart
    \/ RolloutCall
    \/ WaitPendingOperations
    \/ Fatal
    \/ OperationEnds

SpecQuiet == InitQuiet /\ [][NextQuiet]_vars

\* The controller on a stack-set other actors work on too.
BusyEntries ==
    {Item(t, rs, o) : t \in Targets, rs \in {{"ap-southeast-2"}, Regions}, o \in {<<>>, <<P1, P2>>}}

BusyTables ==
    UNION {[ps -> {[ParameterOverrides |-> <<>>, Status |-> "CURRENT"]}] :
              ps \in SUBSET {<<111, "ap-southeast-2">>, <<111, "eu-west-1">>, <<222, "eu-west-1">>}}

Init ==
    /\ InitController(Configs(BusyEntries, MaxEntries), BusyTables, TemplateDiffs)
    /\ others = 0

Next == NextQuiet \/ OtherActor

Spec == Init /\ [][Next]_vars

\* ------------------------------------------------- vocabulary of the claims

\* The (target, region) pairs the entries of a list name.
ListPairs(list) == UNION {{<<list[i].account, r>> : r \in list[i].regions} : i \in 1..Len(list)}

\* The pairs of the desired state and of the remote snapshot.
Desired  == ListPairs(rollout_config)
Existing == DOMAIN instances

CreatePairs == ListPairs(create)
UpdatePairs == ListPairs(update)
DeletePairs == ListPairs(delete)
SkipPairs   == {<<x[1], x[2]>> : x \in skip}

\* The calls of the three plans of an account-scoped rollout.
CreateCalls == GroupCalls("create", create_groups)
UpdateCalls == GroupCalls("update", update_groups)
DeleteCalls == GroupCalls("delete", delete_groups)

PlanPairs(cs) == UNION {CallPairs(cs[i]) : i \in 1..Len(cs)}

\* Some call of the list names the pair and carries the override (up to order).
InPlan(cs, pair, override) ==
    \E i \in 1..Len(cs) : pair \in CallPairs(cs[i]) /\ SameOverride(cs[i].override, override)

\* Some entry of the list names the pair and carries the override (up to order).
InList(list, pair, override) ==
    \E i \in 1..Len(list) :
        /\ list[i].account = pair[1] /\ pair[2] \in list[i].regions
        /\ SameOverride(list[i].override, override)

\* Each (target, region) pair appears in at most one desired entry.
NoOverlap ==
    \A i, j \in 1..Len(rollout_config) :
        (i # j /\ rollout_config[i].account = rollout_config[j].account)
            => rollout_config[i].regions \cap rollout_config[j].regions = {}

\* Entries that name the same pair carry the same override (up to order).
NoConflict ==
    \A i, j \in 1..Len(rollout_config) :
        (/\ rollout_config[i].account = rollout_config[j].account
         /\ rollout_config[i].regions \cap rollout_config[j].regions # {})
            => SameOverride(rollout_config[i].override, rollout_config[j].override)

Classified == pc = "classified"

\* ------------------------------------------------------------------ claims

Coverage == CreatePairs \cup UpdatePairs \cup SkipPairs \cup DeletePairs = Existing \cup Desired

OneClass ==
    /\ CreatePairs \cap (UpdatePairs \cup SkipPairs \cup DeletePairs) = {}
    /\ UpdatePairs \cap (SkipPairs \cup DeletePairs) = {}
    /\ SkipPairs \cap DeletePairs = {}

\* C2 as stated: for every desired configuration and every snapshot, the
\* CREATE, UPDATE, SKIP and DELETE pairs cover exactly existing \cup desired
\* and no pair is in two classes.
C2_AsStated == Classified => (Coverage /\ OneClass)

\* C2 (amended): the four classes cover exactly existing \cup desired for
\* every configuration and snapshot; no pair is in two classes provided the
\* entries that name the same pair carry the same override.
C2_Coverage == Classified => (Coverage /\ (NoConflict => OneClass))

\* A configuration without conflicts and a snapshot for which each of the
\* four classes holds a pair.
C2_Witness ==
    /\ Classified /\ NoConflict
    /\ CreatePairs # {} /\ UpdatePairs # {} /\ SkipPairs # {} /\ DeletePairs # {}

\* needsUpdate of the pair (target of e, r) against the override of entry e.
NeedsUpdate(e, r) == region_need_update(instances, e.account, r, e.override)

ExistingRegions(t) == {r \in Regions : <<t, r>> \in Existing}

RolloutPairs == PlanPairs(CreateCalls) \cup PlanPairs(UpdateCalls)

\* C3 as stated: for a target present remotely, a desired region that does
\* not exist is in the create plan with the entry's override, one that exists
\* and needs an update is in the update plan with the entry's override, and
\* one that exists and needs no update is in neither plan.
C3_AsStated ==
    Classified =>
        \A i \in 1..Len(rollout_config) :
            LET e == rollout_config[i] IN
            ExistingRegions(e.account) # {} =>
                \A r \in e.regions :
                    /\ r \notin ExistingRegions(e.account)
                           => InPlan(CreateCalls, <<e.account, r>>, e.override)
                    /\ (r \in ExistingRegions(e.account) /\ NeedsUpdate(e, r))
                           => InPlan(UpdateCalls, <<e.account, r>>, e.override)
                    /\ (r \in ExistingRegions(e.account) /\ ~NeedsUpdate(e, r))
                           => <<e.account, r>> \notin RolloutPairs

\* C3 (amended): as stated, except that a desired region that exists and
\* needs no update is named by no create or update batch that carries the
\* entry's override; it is in neither plan at all when the entries that name
\* the pair carry the same override.
C3_Rule ==
    Classified =>
        \A i \in 1..Len(rollout_config) :
            LET e == rollout_config[i] IN
            ExistingRegions(e.account) # {} =>
                \A r \in e.regions :
                    /\ r \notin ExistingRegions(e.account)
                           => InPlan(CreateCalls, <<e.account, r>>, e.override)
                    /\ (r \in ExistingRegions(e.account) /\ NeedsUpdate(e, r))
                           => InPlan(UpdateCalls, <<e.account, r>>, e.override)
                    /\ (r \in ExistingRegions(e.account) /\ ~NeedsUpdate(e, r))
                           => /\ ~InPlan(CreateCalls, <<e.account, r>>, e.override)
                              /\ ~InPlan(UpdateCalls, <<e.account, r>>, e.override)
                              /\ NoConflict => <<e.account, r>> \notin RolloutPairs

\* A target present remotely with a region to create, a region to update
\* and a region that is skipped, in a configuration without conflicts.
C3_Witness ==
    /\ Classified /\ NoConflict
    /\ \E t \in Targets :
        /\ \E r \in Regions : <<t, r>> \in CreatePairs /\ ExistingRegions(t) # {}
        /\ \E r \in Regions : <<t, r>> \in UpdatePairs \cup SkipPairs
    /\ UpdatePairs # {} /\ SkipPairs # {}

\* The regions of a target the delete plan names.
DeleteNamed(t) == {r \in Regions : <<t, r>> \in PlanPairs(DeleteCalls)}

DesiredRegions(t) ==
    UNION {rollout_config[i].regions :
              i \in {j \in 1..Len(rollout_config) : rollout_config[j].account = t}}

\* C4: the delete plan names, for every target of the snapshot, exactly its
\* existing regions minus the union of the regions of all desired entries
\* for that target, each once, and names nothing else.
C4_Delete ==
    pc \in {"rollout_create_update", "classified"} =>
        /\ \A t \in Targets : DeleteNamed(t) = ExistingRegions(t) \ DesiredRegions(t)
        /\ \A i, j \in 1..Len(DeleteCalls) :
               i # j => CallPairs(DeleteCalls[i]) \cap CallPairs(DeleteCalls[j]) = {}
        /\ PlanPairs(DeleteCalls) \subseteq Pairs

\* A target with two entries of different overrides whose regions together
\* cover all it has, and a target without a desired entry that has instances.
C4_Witness ==
    /\ pc = "rollout_create_update"
    /\ \E t \in Targets :
        /\ Len(rollout_config) = 2
        /\ rollout_config[1].account = t /\ rollout_config[2].account = t
        /\ ~SameOverride(rollout_config[1].override, rollout_config[2].override)
        /\ rollout_config[1].regions # {} /\ rollout_config[2].regions # {}
        /\ rollout_config[1].regions # rollout_config[2].regions
        /\ ExistingRegions(t) = Regions
        /\ DeleteNamed(t) = {}
    /\ \E t \in Targets :
        /\ DesiredRegions(t) = {} /\ ExistingRegions(t) = Regions
        /\ DeleteNamed(t) = Regions

\* C6 as stated: every pair of a create (update) batch was classified CREATE
\* (UPDATE) with the batch's override, and no create or update batch names a
\* pair classified SKIP or DELETE, or a pair outside the desired state.
C6_AsStated ==
    Classified =>
        /\ \A i \in 1..Len(CreateCalls) : \A p \in CallPairs(CreateCalls[i]) :
               InList(create, p, CreateCalls[i].override)
        /\ \A i \in 1..Len(UpdateCalls) : \A p \in CallPairs(UpdateCalls[i]) :
               InList(update, p, UpdateCalls[i].override)
        /\ RolloutPairs \cap (SkipPairs \cup DeletePairs) = {}
        /\ RolloutPairs \subseteq Desired

SkippedWith(p, override) ==
    \E x \in skip : x[1] = p[1] /\ x[2] = p[2] /\ SameOverride(x[3], override)

\* C6 (amended): as stated, except that a create or update batch names no
\* pair that was classified SKIP under the batch's override; it names no pair
\* classified SKIP at all when the entries that name the same pair carry the
\* same override.
C6_Legitimate ==
    Classified =>
        /\ \A i \in 1..Len(CreateCalls) : \A p \in CallPairs(CreateCalls[i]) :
               /\ InList(create, p, CreateCalls[i].override)
               /\ ~SkippedWith(p, CreateCalls[i].override)
        /\ \A i \in 1..Len(UpdateCalls) : \A p \in CallPairs(UpdateCalls[i]) :
               /\ InList(update, p, UpdateCalls[i].override)
               /\ ~SkippedWith(p, UpdateCalls[i].override)
        /\ RolloutPairs \cap DeletePairs = {}
        /\ NoConflict => RolloutPairs \cap SkipPairs = {}
        /\ RolloutPairs \subseteq Desired

\* Create and update batches of two different overrides next to skipped and
\* deleted pairs.
C6_Witness ==
    /\ Classified /\ NoConflict
    /\ Len(CreateCalls) > 0 /\ Len(UpdateCalls) > 0
    /\ \E i \in 1..Len(CreateCalls) : \E j \in 1..Len(UpdateCalls) :
           ~SameOverride(CreateCalls[i].override, UpdateCalls[j].override)
    /\ (SkipPairs # {} \/ DeletePairs # {})

\* The calls grouped_rollout's groups stand for.
PlannerCalls == GroupCalls("create", deployments)

\* C5: the batches name every (target, region) pair of every group exactly
\* once, under the override of the entry that brought the pair, and name no
\* pair outside the group's mapping; no batch lists a target twice.
C5_ExactCover ==
    pc = "planned" =>
        /\ \A k \in 1..Len(coll) : \A r \in coll[k].regions :
               Cardinality({i \in 1..Len(PlannerCalls) :
                   /\ <<coll[k].account, r>> \in CallPairs(PlannerCalls[i])
                   /\ SameOverride(PlannerCalls[i].override, coll[k].override)}) = 1
        /\ \A i \in 1..Len(PlannerCalls) :
               /\ \A p \in CallPairs(PlannerCalls[i]) : InList(coll, p, PlannerCalls[i].override)
               /\ Cardinality(Range(PlannerCalls[i].accounts)) = Len(PlannerCalls[i].accounts)
               /\ PlannerCalls[i].regions # {}

\* Two groups, one of them planned as a batch over two targets followed by
\* further batches.
C5_Witness ==
    /\ pc = "planned"
    /\ Len(deployments) = 2
    /\ \E g \in 1..Len(deployments) :
        /\ Len(deployments[g].accounts) >= 2
        /\ Len(deployments[g].accounts[1].accounts) >= 2

\* ------------------------------------------------- claims on the controller

CallKinds == {calls[i].call.kind : i \in 1..Len(calls)}

\* The kinds of the calls the remote side accepted.
AcceptedKinds == {calls[i].call.kind : i \in {j \in 1..Len(calls) : calls[j].result = "ok"}}

\* The calls of attempt n the remote side accepted, in the order of issue.
AcceptedCalls(n) ==
    LET es == SelectSeq(calls, LAMBDA e : e.attempt = n /\ e.result = "ok")
    IN  [i \in 1..Len(es) |-> es[i].call]

\* A step that issues a mutating call.
IssuesCall == Len(calls') > Len(calls)

NonEmptyRegions == \A i \in 1..Len(rollout_config) : rollout_config[i].regions # {}

\* Every desired pair exists and carries its entry's override; nothing else exists.
Reconciled ==
    /\ DOMAIN instances = Desired
    /\ \A i \in 1..Len(rollout_config) : \A r \in rollout_config[i].regions :
           SameOverride(instances[<<rollout_config[i].account, r>>].ParameterOverrides,
                        rollout_config[i].override)

\* C1: with either strategy, once deploy() has completed without error on a
\* stack-set no other actor touches, for desired entries with non-empty region
\* sets that name each pair at most once, the remote instances are exactly the
\* desired pairs, each carrying its entry's override.
C1_Reconciled ==
    (pc = "done" /\ others = 0 /\ NonEmptyRegions /\ NoOverlap) => Reconciled

\* A completed deploy() of two entries that had to delete, create and update.
C1_Witness ==
    /\ pc = "done" /\ others = 0 /\ NonEmptyRegions /\ NoOverlap
    /\ Len(rollout_config) = 2
    /\ {"delete", "create", "update"} \subseteq AcceptedKinds
    /\ Reconciled

\* C7: after a mutating call failed with OperationInProgressException the
\* controller issues no mutating call until it has waited for the pending
\* operations to clear and then re-entered the function from its start,
\* re-reading the instances and recomputing the plan; the wait ends only on a
\* poll that finds no running operation, and only a re-entry that re-reads
\* ends the obligation.
C7_Retry ==
    [][/\ IssuesCall => retry = "none"
       /\ (retry = "must_wait" /\ retry' # "must_wait")
              => (retry' = "must_replan" /\ (~Running \/ ~stackset))
       /\ (retry = "must_replan" /\ retry' # "must_replan")
              => /\ retry' = "none"
                 /\ attempt' = attempt + 1
                 /\ pc \in {"cleanup", "rollout"}
                        => (stack_instances' = retrieve(instances) /\ todo' = plan')]_vars

\* A call was refused for contention, the function was re-entered, its plan
\* differs from the one in hand at the error, and a call of the new plan was
\* accepted.
C7_Witness ==
    /\ retry = "none"
    /\ plan # stale
    /\ \E i, j \in 1..Len(calls) :
           /\ i < j
           /\ calls[i].result = "in_progress"
           /\ calls[i].call.kind \in {"create", "update", "delete"}
           /\ calls[j].result = "ok"
           /\ calls[j].attempt > calls[i].attempt
           /\ calls[j].call.kind = calls[i].call.kind

InLoop ==
    \/ pc \in {"cleanup_call", "rollout_call", "done"}
    \/ pc = "wait" /\ ret \in {"cleanup_call", "rollout_call"}

\* C8: the controller issues a mutating call only when the last call it had
\* accepted has been followed by a poll that found no running operation (or no
\* stack-set) and none of its own operations is running; and the calls of an
\* attempt that were accepted, followed by the batches still to issue, are the
\* plan of the attempt, one call per batch.
C8_Sequential ==
    /\ [][IssuesCall => (~awaiting /\ operation.by # "self")]_vars
    /\ [](InLoop => AcceptedCalls(attempt) \o todo = plan)

\* A plan of at least two batches of which the second has been accepted.
C8_Witness ==
    /\ pc = "wait" /\ ret = "rollout_call"
    /\ awaiting
    /\ Len(plan) >= 2 /\ Len(AcceptedCalls(attempt)) = 2
    /\ operation.by = "self"

Rank(kind) ==
    CASE kind = "delete" -> 1
      [] kind = "update_stack_set" -> 2
      [] kind \in {"create", "update"} -> 3
      [] OTHER -> 0

\* C9: in deploy() of an existing stack-set every delete-instances call is
\* issued before the update-stack-set call, which is issued before every
\* create-instances and update-instances call; and within a rollout attempt no
\* create-instances call follows an update-instances call.
C9_Ordering ==
    existing_stack =>
        \A i, j \in 1..Len(calls) :
            i < j => /\ Rank(calls[i].call.kind) <= Rank(calls[j].call.kind)
                     /\ (calls[i].attempt = calls[j].attempt /\ calls[i].call.kind = "update")
                            => calls[j].call.kind # "create"

\* A completed deploy() of an existing stack-set that issued all four kinds.
C9_Witness ==
    /\ pc = "done" /\ existing_stack
    /\ {"delete", "update_stack_set", "create", "update"} \subseteq AcceptedKinds

FirstIsCreateStackSet == calls # <<>> => calls[1].call.kind = "create_stack_set"

\* A create- or update-instances call was refused for contention.
RolloutRetried ==
    \E i \in 1..Len(calls) :
        calls[i].result = "in_progress" /\ calls[i].call.kind \in {"create", "update"}

\* C10 as stated: deploy() of an absent stack-set issues create-stack-set
\* first, no delete-instances call and, in every execution, no
\* update-instances call.
C10_AsStated ==
    ~existing_stack =>
        /\ FirstIsCreateStackSet
        /\ "delete" \notin CallKinds
        /\ "update" \notin CallKinds

\* C10, amended: deploy() of an absent stack-set issues create-stack-set
\* first and no delete-instances call; it issues no update-instances call as
\* long as no other actor has created or deleted instances of the stack-set
\* and no call of the rollout was refused for contention.
C10_CreatePass ==
    ~existing_stack =>
        /\ FirstIsCreateStackSet
        /\ "delete" \notin CallKinds
        /\ (foreign = {} /\ ~RolloutRetried) => "update" \notin CallKinds

\* A completed deploy() of an absent stack-set, on which another actor ran an
\* operation, whose rollout took two create calls and was not retried.
C10_Witness ==
    /\ pc = "done" /\ ~existing_stack
    /\ others > 0 /\ foreign = {} /\ ~RolloutRetried
    /\ Len(SelectSeq(calls, LAMBDA e : e.result = "ok" /\ e.call.kind = "create")) >= 2

\* ------------------------------------------------------------ fingerprint
\* grouped_rollout applied to two entries for two targets whose overrides
\* are drawn from the lists without a repeated key over four parameters,
\* two of which format to the same 'key-value' string.

PA == Param(<<"a">>, <<"1">>)
PB == Param(<<"b">>, <<"1">>)
PX == Param(<<"a">>, <<"b", "-", "1">>)
PY == Param(<<"a", "-", "b">>, <<"1">>)

\* The override lists format_rollout can build from a mapping over these
\* parameters: no key twice.
FingerprintOverrides ==
    LET ps == {PA, PB, PX, PY}
    IN  {<<>>} \cup {<<p>> : p \in ps}
        \cup {pq \in ps \X ps : pq[1].ParameterKey # pq[2].ParameterKey}

InitFingerprint ==
    /\ PassiveInit
    /\ strategy = "accounts" /\ rollout_config = <<>> /\ Unchanged
    /\ existing_stack = FALSE /\ stackset = FALSE /\ instances = <<>>
    /\ others = 0
    /\ pc = "planner"
    /\ coll \in {<<Item(111, {"ap-southeast-2"}, o1), Item(222, {"ap-southeast-2"}, o2)>> :
                    o1 \in FingerprintOverrides, o2 \in FingerprintOverrides}
    /\ deployments = <<>>

SpecFingerprint == InitFingerprint /\ [][NextPlanner]_vars

Count(s, x) == Cardinality({i \in 1..Len(s) : s[i] = x})

\* Two lists hold the same entries, each as often, in whatever order.
PermEqual(o1, o2) ==
    /\ Len(o1) = Len(o2)
    /\ \A x \in Range(o1) \cup Range(o2) : Count(o1, x) = Count(o2, x)

\* The entries i and j of coll are served by the same group.
SameGroup(i, j) ==
    \E g \in 1..Len(deployments) :
        LET named == UNION {Range(deployments[g].accounts[k].accounts) :
                               k \in 1..Len(deployments[g].accounts)}
        IN  coll[i].account \in named /\ coll[j].account \in named

\* C13: the fingerprint of an override list is the same for every
\* permutation of it and is '-' exactly for the empty list; grouped_rollout
\* puts two entries in one group if and only if their overrides are equal up
\* to permutation, one group per distinct override.
C13_Fingerprint ==
    pc = "planned" =>
        /\ \A i, j \in 1..Len(coll) :
            /\ PermEqual(coll[i].override, coll[j].override)
                   <=> calculate_overrides_checksum(coll[i]) = calculate_overrides_checksum(coll[j])
            /\ PermEqual(coll[i].override, coll[j].override) <=> SameGroup(i, j)
        /\ \A i \in 1..Len(coll) :
               coll[i].override = <<>> <=> calculate_overrides_checksum(coll[i]) = <<"-">>
        /\ Len(deployments) =
               IF PermEqual(coll[1].override, coll[2].override) THEN 1 ELSE 2

\* ------------------------------------------------------ region_need_update
\* region_need_update on its own: one instance with any override list and
\* status, asked about any desired override list.

Statuses == {"CURRENT", "OUTDATED", "INOPERABLE"}

TheInstance == <<111, "ap-southeast-2">>

InitNeedUpdate ==
    /\ PassiveInit
    /\ strategy = "accounts" /\ Unchanged
    /\ existing_stack = TRUE /\ stackset = TRUE
    /\ rollout_config \in {<<Item(TheInstance[1], {TheInstance[2]}, o)>> : o \in FingerprintOverrides}
    /\ instances \in [{TheInstance} ->
                         [ParameterOverrides : FingerprintOverrides, Status : Statuses]]
    /\ others = 0
    /\ pc = "region_need_update"
    /\ coll = <<>> /\ deployments = <<>>

RegionNeedUpdate ==
    /\ pc = "region_need_update"
    /\ pc' = "answered"
    /\ answer' = region_need_update(instances, TheInstance[1], TheInstance[2],
                                    rollout_config[1].override)
    /\ UNCHANGED <<configVars, rolloutVars, remoteVars, historyVars, others,
                   ret, plan, todo, coll, deployments, runs, runVars, errorVars>>

NextNeedUpdate == RegionNeedUpdate

SpecNeedUpdate == InitNeedUpdate /\ [][NextNeedUpdate]_vars

\* C14: region_need_update answers true exactly when the instance's override
\* list differs from the desired one, both taken up to the order of their
\* entries, or the instance's status is not CURRENT.
C14_NeedsUpdate ==
    pc = "answered" =>
        (answer <=> \/ ~PermEqual(instances[TheInstance].ParameterOverrides,
                                  rollout_config[1].override)
                    \/ instances[TheInstance].Status # "CURRENT")

\* The answer is false for two lists of two entries in different orders.
C14_Witness ==
    /\ pc = "answered" /\ ~answer
    /\ Len(rollout_config[1].override) = 2
    /\ instances[TheInstance].ParameterOverrides # rollout_config[1].override

\* ------------------------------------------- organization never skips

\* The rollout has been classified in the attempt in progress.
RolloutClassified ==
    \/ pc \in {"rollout_call", "done"}
    \/ pc = "wait" /\ ret = "rollout_call"

\* An accepted update-instances call of the attempt in progress names the pair.
UpdateSubmitted(pair) ==
    \E i \in 1..Len(calls) :
        /\ calls[i].attempt = attempt /\ calls[i].result = "ok"
        /\ calls[i].call.kind = "update"
        /\ pair \in CallPairs(calls[i].call)

\* C15: under the organization strategy every desired (OU, region) pair the
\* remote side lists is classified UPDATE, whatever its override and status,
\* none is skipped, and a deploy() that completes has submitted an
\* update-instances call naming it.
C15_NeverSkips ==
    (strategy = "organization" /\ RolloutClassified) =>
        /\ skip = {}
        /\ \A i \in 1..Len(rollout_config) : \A r \in rollout_config[i].regions :
               (/\ rollout_config[i].account \in DOMAIN stack_instances
                /\ r \in stack_instances[rollout_config[i].account])
                   => /\ InList(update, <<rollout_config[i].account, r>>, rollout_config[i].override)
                      /\ InPlan(plan, <<rollout_config[i].account, r>>, rollout_config[i].override)
                      /\ pc = "done" => UpdateSubmitted(<<rollout_config[i].account, r>>)

\* An organization-scoped rollout has put in its update plan a pair whose
\* instance is CURRENT and carries the desired override.
C15_Witness ==
    /\ strategy = "organization" /\ pc = "rollout_call" /\ todo = plan /\ NoOverlap
    /\ \E i \in 1..Len(rollout_config) : \E r \in rollout_config[i].regions :
           LET pair == <<rollout_config[i].account, r>>
           IN  /\ pair \in DOMAIN instances
               /\ instances[pair] = [ParameterOverrides |-> rollout_config[i].override,
                                     Status |-> "CURRENT"]
               /\ \E k \in 1..Len(plan) :
                      plan[k].kind = "update" /\ pair \in CallPairs(plan[k])

\* ------------------------------------------------------ planner minimality

\* The batches (targets x regions) that lie within pairs and name pair p.
BatchesThrough(pairs, p) ==
    {b \in {ts \X rs : ts \in SUBSET {q[1] : q \in pairs}, rs \in SUBSET {q[2] : q \in pairs}} :
        p \in b /\ b \subseteq pairs}

Least(S) == CHOOSE n \in S : \A k \in S : n <= k

\* The length of the shortest list of batches that names every pair exactly
\* once, each batch applying one region set to a list of targets.
RECURSIVE MinBatches(_)
MinBatches(pairs) ==
    IF pairs = {} THEN 0
    ELSE LET p == CHOOSE q \in pairs : TRUE
         IN  Least({1 + MinBatches(pairs \ b) : b \in BatchesThrough(pairs, p)})

\* The pairs of the entries grouped_rollout put into group g.
GroupPairs(g) ==
    ListPairs(SelectSeq(coll, LAMBDA xd :
        calculate_overrides_checksum(xd) = calculate_overrides_checksum(deployments[g])))

\* C16: for every group the planner's list of batches is as short as any
\* list of batches that covers the pairs of the group exactly once.
C16_Minimal ==
    pc = "planned" =>
        \A g \in 1..Len(deployments) :
            Len(deployments[g].accounts) = MinBatches(GroupPairs(g))

\* ------------------------------------------------------------- scenario C
\* Two accounts; the first has instances in two of three regions, the second
\* in the first of them; both are desired in all three regions under one
\* override, and every instance found needs an update.

\* The ways of naming the three regions r1, r2, r3.
RegionNamings ==
    {n \in [1..3 -> PlannerRegions] : \A i, j \in 1..3 : i # j => n[i] # n[j]}

\* What an instance that needs an update under the override may carry.
StatesNeedingUpdate(o) ==
    {s \in InstanceStates :
        \/ SortedByParameterKey(s.ParameterOverrides) # SortedByParameterKey(o)
        \/ s.Status # "CURRENT"}

InitScenarioC ==
    /\ PassiveInit
    /\ strategy = "accounts" /\ Unchanged
    /\ existing_stack = TRUE /\ stackset = TRUE
    /\ others = 0
    /\ pc = "rollout_delete"
    /\ coll = <<>> /\ deployments = <<>>
    /\ \E n \in RegionNamings, acct1 \in Targets, o \in DesiredOverrides :
        \E acct2 \in Targets \ {acct1} :
            /\ rollout_config = <<Item(acct1, {n[1], n[2], n[3]}, o),
                                  Item(acct2, {n[1], n[2], n[3]}, o)>>
            /\ instances \in [{<<acct1, n[1]>>, <<acct1, n[2]>>, <<acct2, n[1]>>}
                                 -> StatesNeedingUpdate(o)]

SpecScenarioC == InitScenarioC /\ [][NextClassify]_vars

\* The regions two entries of a list share are named by one call for both.
SharedBatched(list, cs) ==
    \A p, q \in ListPairs(list) :
        p[2] = q[2] => \E i \in 1..Len(cs) : {p, q} \subseteq CallPairs(cs[i])

TotalBatches == Len(DeleteCalls) + Len(CreateCalls) + Len(UpdateCalls)

\* The batches of a plan that issues one batch per account in each pass.
OnePerAccount ==
    Cardinality({delete[i].account : i \in 1..Len(delete)})
    + Cardinality({create[i].account : i \in 1..Len(create)})
    + Cardinality({update[i].account : i \in 1..Len(update)})

\* C17 as stated: in scenario C the regions both accounts share in a pass
\* are in calls naming both accounts, and the plan has strictly fewer
\* batches than one batch per account in each pass.
C17_AsStated ==
    Classified =>
        /\ SharedBatched(create, CreateCalls)
        /\ SharedBatched(update, UpdateCalls)
        /\ TotalBatches < OnePerAccount

\* C17 amended: in scenario C the regions both accounts share in a pass are
\* in calls naming both accounts, and the plan has as many batches as one
\* batch per account in each pass, not fewer: four.
C17_ScenarioC ==
    Classified =>
        /\ SharedBatched(create, CreateCalls)
        /\ SharedBatched(update, UpdateCalls)
        /\ TotalBatches = OnePerAccount
        /\ TotalBatches = 4

\* Scenario C classified: a create call and an update call name both accounts.
C17_Witness ==
    /\ Classified
    /\ Len(rollout_config) = 2
    /\ \E i \in 1..Len(CreateCalls) : Len(CreateCalls[i].accounts) = 2
    /\ \E i \in 1..Len(UpdateCalls) : Len(UpdateCalls[i].accounts) = 2
    /\ Len(delete) = 0

\* The remote side holds exactly the desired pairs, each with the override
\* (up to order) of every entry that names it and status CURRENT.
NoChange ==
    /\ Desired = Existing
    /\ \A i \in 1..Len(rollout_config) : \A r \in rollout_config[i].regions :
           /\ SameOverride(instances[<<rollout_config[i].account, r>>].ParameterOverrides,
                           rollout_config[i].override)
           /\ instances[<<rollout_config[i].account, r>>].Status = "CURRENT"

\* C18: when nothing differs between the desired and the existing instances,
\* rollout_delete returns no batch and rollout_create_update returns no
\* create batch and no update batch; every desired pair is skipped.
C18_NoChange ==
    /\ (pc \in {"rollout_create_update", "classified"} /\ NoChange)
           => (delete = <<>> /\ delete_groups = <<>>)
    /\ (Classified /\ NoChange)
           => /\ create = <<>> /\ create_groups = <<>>
              /\ update = <<>> /\ update_groups = <<>>
              /\ SkipPairs = Desired

\* A ragged configuration without change: two targets with different,
\* non-empty region sets, one of them with a non-empty override.
C18_Witness ==
    /\ Classified /\ NoChange
    /\ Len(rollout_config) = 2
    /\ rollout_config[1].account # rollout_config[2].account
    /\ Cardinality(rollout_config[1].regions) = 2
    /\ Cardinality(rollout_config[2].regions) = 1
    /\ rollout_config[1].override # <<>>

\* The target of the entry has no instance on the remote side and the entry
\* names regions.
AbsentTarget(e) ==
    /\ e.account \notin {p[1] : p \in Existing}
    /\ e.regions # {}

\* The entry is the only one of the create list in its override group.
AloneInGroup(e) ==
    Cardinality({i \in 1..Len(create) :
        calculate_overrides_checksum(create[i]) = calculate_overrides_checksum(e)}) = 1

\* The create calls that name the target under the override of the entry's group.
CreateCallsFor(e) ==
    {i \in 1..Len(CreateCalls) :
        /\ e.account \in Range(CreateCalls[i].accounts)
        /\ calculate_overrides_checksum(CreateCalls[i]) = calculate_overrides_checksum(e)}

CallRolloutDeleteOu(from, to) ==
    /\ pc \in from
    /\ pc' = to
    /\ \E d \in {rollout_delete_ou(Self, instances)} :
           /\ stack_instances' = retrieve(instances)
           /\ delete' = d.delete
           /\ delete_groups' = d.groups
    /\ UNCHANGED <<configVars, remoteVars, historyVars, plannerVars, others,
                   create, update, skip, create_groups, update_groups, ret, plan, todo>>

CallRolloutCreateUpdateOu(from, to) ==
    /\ pc \in from
    /\ pc' = to
    /\ \E cu \in {rollout_create_update_ou(Self, instances)} :
           /\ stack_instances' = retrieve(instances)
           /\ create' = cu.create
           /\ update' = cu.update
           /\ skip' = cu.skip
           /\ create_groups' = cu.create_groups
           /\ update_groups' = cu.update_groups
           /\ rollout_config' = cu.rollout_config
    /\ UNCHANGED <<strategy, found, wanted, has_rollout, existing_stack,
                   remoteVars, historyVars, plannerVars, others,
                   delete, delete_groups, ret, plan, todo>>

\* Configurations of two entries, and the remote tables they meet.
TwiceConfigs == {c \in Configs(Entries, MaxEntries) : Len(c) = 2}

InitTwice ==
    /\ PassiveInit
    /\ strategy \in {"accounts", "organization"}
    /\ rollout_config \in TwiceConfigs
    /\ Unchanged
    /\ existing_stack = TRUE /\ stackset = TRUE
    /\ instances \in InstanceTables({[ParameterOverrides |-> <<>>,       Status |-> "CURRENT"],
                                     [ParameterOverrides |-> <<P1, P2>>, Status |-> "OUTDATED"]})
    /\ others = 0
    /\ pc = "first"
    /\ coll = <<>> /\ deployments = <<>>

FirstCalls ==
    /\ strategy = "accounts"
    /\ CallRolloutDelete({"first"}, "rollout_create_update")

FirstCallsOu ==
    /\ strategy = "organization"
    /\ CallRolloutDeleteOu({"first"}, "rollout_create_update_ou")

RolloutCreateUpdateOu ==
    /\ strategy = "organization"
    /\ CallRolloutCreateUpdateOu({"rollout_create_update_ou"}, "classified")

RolloutDeleteAgain ==
    /\ strategy = "accounts"
    /\ CallRolloutDelete({"classified", "create_update_again"}, "delete_again")

RolloutCreateUpdateAgain ==
    /\ strategy = "accounts"
    /\ CallRolloutCreateUpdate({"classified", "delete_again"}, "create_update_again")

RolloutDeleteOuAgain ==
    /\ strategy = "organization"
    /\ CallRolloutDeleteOu({"classified", "create_update_again"}, "delete_again")

RolloutCreateUpdateOuAgain ==
    /\ strategy = "organization"
    /\ CallRolloutCreateUpdateOu({"classified", "delete_again"}, "create_update_again")

NextTwice ==
    \/ FirstCalls
    \/ FirstCallsOu
    \/ RolloutCreateUpdate
    \/ RolloutCreateUpdateOu
    \/ RolloutDeleteAgain
    \/ RolloutCreateUpdateAgain
    \/ RolloutDeleteOuAgain
    \/ RolloutCreateUpdateOuAgain

SpecTwice == InitTwice /\ [][NextTwice]_vars

\* C20: a later call of rollout_delete or rollout_create_update on the same
\* object, with the remote instances and the configuration as they were,
\* returns the plan the earlier call returned and leaves the lists as the
\* earlier call left them (nothing accumulates); no call changes the
\* desired configuration.
C20_Idempotent ==
    [][ /\ rollout_config' = rollout_config
        /\ pc' = "delete_again" =>
               (delete_groups' = delete_groups /\ delete' = delete)
        /\ pc' = "create_update_again" =>
               /\ create_groups' = create_groups /\ update_groups' = update_groups
               /\ create' = create /\ update' = update /\ skip' = skip
      ]_vars

\* A second rollout_create_update whose create list holds an entry appended
\* whole (sharing its region set with the configuration) and an entry built
\* region by region, and whose update list is not empty.
C20_Witness ==
    /\ pc = "create_update_again"
    /\ update # <<>>
    /\ \E i, j \in 1..Len(create) :
           /\ create[i].account \notin {p[1] : p \in Existing}
           /\ create[j].account \in {p[1] : p \in Existing}

\* ---------------------------------------------------------------- teardown
\* CloudformationStackSet.teardown against the remote service.  The remote
\* side refuses delete_stack_set while the stack-set has instances
\* (StackSetNotEmptyException) or a running operation.

\* Mutant: the stack-set is deleted without wiping its instances out.
teardown_no_wipe_out(existing) == IF existing THEN "delete_stackset" ELSE "done"

\* teardown: which function runs first.
teardown(existing) == IF existing THEN "wipe_out" ELSE "done"

\* teardown(): the branch on existing_stack.
Teardown ==
    /\ pc = "teardown"
    /\ pc' = teardown(existing_stack)
    /\ UNCHANGED <<configVars, rolloutVars, remoteVars, historyVars, plannerVars, others,
                   ret, plan, todo>>

\* wipe_out_stackset_instances: one delete_stack_instances per account of
\* the listing sorted by account, for the regions listed for it.
WipeOutCalls(listing) ==
    LET accounts == Ascending(DOMAIN listing)
    IN  [i \in 1..Len(accounts) |->
            [kind     |-> "delete",
             accounts |-> <<accounts[i]>>,
             regions  |-> listing[accounts[i]],
             override |-> <<>>]]

\* wipe_out_stackset_instances(): list_stack_instances, the start of an
\* attempt of the loop over the accounts.
WipeOutStart ==
    /\ pc = "wipe_out"
    /\ stackset
    /\ \E cs \in {WipeOutCalls(retrieve(instances))} :
           /\ stack_instances' = retrieve(instances)
           /\ plan' = cs
           /\ todo' = cs
           /\ pc' = LoopNext("wipe_out_call", cs)
    /\ attempt' = attempt + 1
    /\ retry' = IF retry = "must_replan" THEN "none" ELSE retry
    /\ UNCHANGED <<configVars, remoteVars, plannerVars, others, calls, awaiting, stale,
                   create, update, delete, skip, create_groups, update_groups,
                   delete_groups, ret>>

\* wipe_out_stackset_instances(): delete_stack_instances, then
\* wait_pending_operations.
WipeOutCall == Submit("wipe_out_call", "wipe_out")

\* delete_stackset(): delete_stack_set, with no wait after it.
DeleteStackSet ==
    /\ pc = "delete_stackset"
    /\ stackset
    /\ LET call == StackSetCall("delete_stack_set")
       IN  IF Running
           THEN /\ calls' = Append(calls, Issued(call, "in_progress", attempt + 1))
                /\ retry' = "must_wait"
                /\ stale' = plan
                /\ pc' = "wait"
                /\ ret' = retry_pending("delete_stackset", "delete_stackset")
                /\ UNCHANGED <<stackset, described, errorVars>>
           ELSE IF DOMAIN instances # {}
           THEN \* StackSetNotEmptyException
                /\ calls' = Append(calls, Issued(call, "error", attempt + 1))
                /\ pc' = "failed"
                /\ raised' = "StackSetNotEmptyException"
                /\ error' = reraise("StackSetNotEmptyException")
                /\ UNCHANGED <<stackset, described, retry, stale, ret>>
           ELSE /\ calls' = Append(calls, Issued(call, "ok", attempt + 1))
                /\ stackset' = FALSE
                /\ described' = Nothing
                /\ pc' = "done"
                /\ retry' = IF retry = "must_replan" THEN "none" ELSE retry
                /\ UNCHANGED <<stale, ret, errorVars>>
    /\ attempt' = attempt + 1
    /\ UNCHANGED <<configVars, rolloutVars, quietVars, others, instances, operation,
                   foreign, awaiting, plan, todo>>

TeardownTables ==
    UNION {[ps -> {[ParameterOverrides |-> <<>>, Status |-> "CURRENT"]}] : ps \in SUBSET Pairs}

\* teardown() on a stack-set other actors may work on too, whatever the
\* desired configuration.
InitTeardown ==
    /\ PassiveInit
    /\ strategy \in {"accounts", "organization"}
    /\ rollout_config \in Configs(BusyEntries, 1)
    /\ \/ /\ stackset = TRUE
          /\ instances \in TeardownTables
       \/ /\ stackset = FALSE
          /\ instances = <<>>
    /\ Unchanged
    /\ existing_stack = stackset
    /\ others = 0
    /\ pc = "teardown"
    /\ coll = <<>> /\ deployments = <<>>

NextTeardown ==
    \/ Teardown
    \/ WipeOutStart
    \/ WipeOutCall
    \/ DeleteStackSet
    \/ WaitPendingOperations
    \/ Fatal
    \/ OperationEnds
    \/ OtherActor

SpecTeardown == InitTeardown /\ [][NextTeardown]_vars

\* The pairs of a listing (target -> regions).
ListingPairs(listing) == UNION {{<<a, r>> : r \in listing[a]} : a \in DOMAIN listing}

\* A step that issues delete_stack_set.
IssuesDeleteStackSet ==
    /\ IssuesCall
    /\ calls'[Len(calls')].call.kind = "delete_stack_set"

\* The delete-instances calls of attempt n the remote side accepted, each
\* followed by a poll that found nothing running, cover the pairs.
WipedOut(n) ==
    /\ AcceptedCalls(n) = plan
    /\ PlanPairs(plan) = ListingPairs(stack_instances)
    /\ todo = <<>>
    /\ ~awaiting

\* C11: teardown() of an absent stack-set issues no mutating call.  Of an
\* existing one: every delete-instances call names instances of the listing
\* it was planned from, whatever the desired configuration; delete_stack_set
\* is issued only when the calls of the last listing, one per account and
\* covering every pair listed, were all accepted and each was followed by a
\* poll that found no running operation; unless another actor created
\* instances meanwhile, no instance is left then.
C11_Teardown ==
    /\ [](~existing_stack => calls = <<>>)
    /\ [](\A i \in 1..Len(calls) :
              calls[i].call.kind \in {"delete", "delete_stack_set"})
    /\ [](pc \in {"wipe_out_call", "delete_stackset"} =>
              /\ PlanPairs(plan) = ListingPairs(stack_instances)
              /\ \A i \in 1..Len(plan) : Len(plan[i].accounts) = 1)
    /\ [][IssuesDeleteStackSet =>
              /\ \E n \in 1..attempt : WipedOut(n)
              /\ foreign = {} => DOMAIN instances = {}]_vars

\* A teardown that deleted the instances of two accounts, one call each,
\* then the stack-set, although the configuration desires instances.
C11_Witness ==
    /\ pc = "done"
    /\ ~stackset
    /\ Len(plan) = 2
    /\ Desired # {}
    /\ Len(calls) = 3
    /\ calls[3].call.kind = "delete_stack_set" /\ calls[3].result = "ok"

\* ------------------------------------------------------------ deploy, again
\* The program run again on the same stack-set with the same desired state:
\* a new CloudformationStackSet object looks the stack-set up and deploy()
\* starts over, after a run that completed or one that a fatal error aborted.
\* Account-scoped rollouts whose entries name each pair at most once; no
\* other actor.

\* How many runs of deploy() are followed.
MaxRuns == 3

RerunEntries ==
    {Item(t, rs, o) : t \in Targets, rs \in SUBSET Regions \ {{}}, o \in {<<>>, <<P2, P1>>}}
    \cup {Item(111, {}, <<>>)}

RerunTables ==
    UNION {[ps -> {[ParameterOverrides |-> <<>>,       Status |-> "CURRENT"],
                   [ParameterOverrides |-> <<P1, P2>>, Status |-> "OUTDATED"]}] :
              ps \in SUBSET {<<111, "ap-southeast-2">>, <<111, "eu-west-1">>,
                             <<222, "ap-southeast-2">>}}

InitRerun ==
    /\ InitController({c \in Configs(RerunEntries, MaxEntries) :
                          \A i, j \in 1..Len(c) :
                              (i # j /\ c[i].account = c[j].account)
                                  => c[i].regions \cap c[j].regions = {}},
                      RerunTables, TemplateDiffs)
    /\ strategy = "accounts"
    /\ others = 0

\* __init__ and set_parameters of the next run: find_existing_stackset, a
\* new rollout object with empty lists; then deploy().
Rerun ==
    /\ pc \in {"done", "failed"}
    /\ Len(runs) < MaxRuns - 1
    /\ runs' = Append(runs, pc)
    /\ pc' = "deploy"
    /\ existing_stack' = stackset
    /\ found' = described
    /\ raised' = "none" /\ error' = "none"
    /\ stack_instances' = <<>> /\ create' = <<>> /\ update' = <<>> /\ delete' = <<>>
    /\ skip' = {} /\ create_groups' = <<>> /\ update_groups' = <<>> /\ delete_groups' = <<>>
    /\ ret' = "none" /\ plan' = <<>> /\ todo' = <<>>
    /\ calls' = <<>> /\ attempt' = 0 /\ retry' = "none" /\ awaiting' = FALSE /\ stale' = <<>>
    /\ UNCHANGED <<strategy, rollout_config, wanted, has_rollout, remoteVars, others,
                   coll, deployments, answer, runVars>>

NextRerun == NextQuiet \/ Rerun

SpecRerun == InitRerun /\ [][NextRerun]_vars

\* The run before this one completed without error.
AfterSuccess == runs # <<>> /\ runs[Len(runs)] = "done"

\* The rollout of this run has been classified.
Rolled == pc \in {"rollout_call", "done"} \/ (pc = "wait" /\ ret = "rollout_call")

\* C12: a deploy() run that follows a run completed without error, whether
\* or not runs before that one were aborted, issues no create-, update- or
\* delete-instances call, and its classification skips every desired pair:
\* the delete, create and update lists are empty.
C12_Converges ==
    (AfterSuccess /\ strategy = "accounts" /\ others = 0 /\ NoOverlap) =>
        /\ CallKinds \cap {"create", "update", "delete"} = {}
        /\ pc \notin {"deploy", "cleanup"} => delete = <<>>
        /\ Rolled => (create = <<>> /\ update = <<>> /\ SkipPairs = Desired)

\* A third run after an aborted first run and a second run that completed:
\* it has completed too, with two entries desired and every pair skipped.
C12_Witness ==
    /\ runs = <<"failed", "done">>
    /\ pc = "done"
    /\ strategy = "accounts" /\ NoOverlap
    /\ Len(rollout_config) = 2
    /\ Cardinality(SkipPairs) >= 2
    /\ SkipPairs = Desired

\* C28: for every group the planner produces at most as many batches as the
\* group's mapping has targets.
C28_AtMostTargets ==
    pc = "planned" =>
        \A g \in 1..Len(deployments) :
            Len(deployments[g].accounts) <= Cardinality({p[1] : p \in GroupPairs(g)})

\* ------------------------------------------------------- planner, step by step

\* The mapping target -> regions of a set of pairs.
MapOf(pairs) ==
    [t \in {p[1] : p \in pairs} |-> {p[2] : p \in {q \in pairs : q[1] = t}}]

\* The pairs of group g that its first k batches leave uncovered.
LeftAfter(g, k) ==
    GroupPairs(g) \ UNION {CallPairs(deployments[g].accounts[i]) : i \in 1..k}

\* What a batch applying region set xs to every target that has all of xs
\* leaves of the mapping a.
LeftBy(a, xs) ==
    MapOf({p \in UNION {{<<t, r>> : r \in a[t]} : t \in DOMAIN a} :
              ~(xs \subseteq a[p[1]] /\ p[2] \in xs)})

\* The cost of candidate xs for mapping a.
Cost(a, xs) == 1 + Len(generate_deployments(LeftBy(a, xs)))

\* The size of the largest subset of two or more targets at which the
\* region set c is discovered as a candidate: as the subset's non-empty
\* intersection, or as the region set of a member when the intersection is
\* empty.
DiscoveredAt(a, c) ==
    {Cardinality(S) : S \in {T \in SUBSET DOMAIN a :
        /\ Cardinality(T) >= 2
        /\ LET meet == {r \in UNION {a[t] : t \in T} : \A t \in T : r \in a[t]}
           IN  IF meet # {} THEN c = meet ELSE \E t \in T : c = a[t]}}

Most(S) == CHOOSE n \in S : \A k \in S : n >= k

\* The rank order of the candidates of mapping a: descending cardinality,
\* and among candidates of one cardinality those discovered at larger
\* subsets of targets first; every candidate is discovered somewhere.
RankOrder(a) ==
    LET ranked == rank_sets(a)
    IN  /\ \A i \in 1..Len(ranked) : DiscoveredAt(a, ranked[i]) # {}
        /\ \A i, j \in 1..Len(ranked) :
               i < j =>
                   /\ ranked[i] # ranked[j]
                   /\ Cardinality(ranked[i]) >= Cardinality(ranked[j])
                   /\ Cardinality(ranked[i]) = Cardinality(ranked[j])
                          => Most(DiscoveredAt(a, ranked[i])) >= Most(DiscoveredAt(a, ranked[j]))

\* The batch is the one the rule picks for mapping a: its region set is the
\* candidate of lowest cost, the earliest in rank order among those of that
\* cost, and it names the targets that have all of that region set.
RuleStep(a, batch) ==
    LET ranked == rank_sets(a)
    IN  /\ \E i \in 1..Len(ranked) :
               /\ ranked[i] = batch.regions
               /\ \A j \in 1..Len(ranked) :
                      /\ Cost(a, ranked[i]) <= Cost(a, ranked[j])
                      /\ Cost(a, ranked[i]) = Cost(a, ranked[j]) => i <= j
        /\ Range(batch.accounts) = {t \in DOMAIN a : batch.regions \subseteq a[t]}

\* C27: at every step at which two or more targets are left, the batch the
\* planner emits uses the candidate of lowest cost, the earliest in rank
\* order among candidates of equal cost; the candidates are ranked by
\* descending cardinality, those discovered at larger subsets of targets
\* first among equals.
C27_Step ==
    pc = "planned" =>
        \A g \in 1..Len(deployments) :
            \A k \in 1..Len(deployments[g].accounts) :
                Cardinality(DOMAIN MapOf(LeftAfter(g, k - 1))) >= 2 =>
                    /\ RankOrder(MapOf(LeftAfter(g, k - 1)))
                    /\ RuleStep(MapOf(LeftAfter(g, k - 1)), deployments[g].accounts[k])

\* A group with two or more targets whose first batch uses a candidate that a
\* later-ranked candidate equals in cost and that another candidate exceeds
\* in cost.
C27_Witness ==
    /\ pc = "planned"
    /\ \E g \in 1..Len(deployments) :
           LET a      == MapOf(GroupPairs(g))
               ranked == rank_sets(a)
           IN  /\ Cardinality(DOMAIN a) >= 2
               /\ \E i \in 1..Len(ranked) :
                      /\ ranked[i] = deployments[g].accounts[1].regions
                      /\ \E j \in 1..Len(ranked) :
                             i < j /\ Cost(a, ranked[j]) = Cost(a, ranked[i])
                      /\ \E j \in 1..Len(ranked) :
                             Cost(a, ranked[j]) > Cost(a, ranked[i])

\* ------------------------------------------------------ configuration errors

\* C24: a run of deploy() whose configuration has an entry with an empty
\* region set does not complete: it fails, and issues no instance call.
C24_EmptyRegionsFatal ==
    (\E i \in 1..Len(rollout_config) : rollout_config[i].regions = {}) =>
        /\ pc # "done"
        /\ \A n \in 1..Len(calls) : calls[n].call.kind \notin {"create", "update", "delete"}

\* ------------------------------------------------------- stack-set update
\* deploy() over what an existing stack-set carries and what is wanted of it:
\* parameters in either order or with another value, another template, tags
\* in either order; other actors may work on the stack-set.

P3 == Param(<<"b">>, <<"2">>)
T1 == [Key |-> "owner", Value |-> "a"]
T2 == [Key |-> "stage", Value |-> "b"]

StackSetDiffs ==
    {<<[Parameters |-> ps, TemplateBody |-> "x", Tags |-> ts],
       [Parameters |-> wps, template |-> wt, Tags |-> wts]>> :
        ps \in {<<P1, P2>>, <<P1>>}, ts \in {<<>>, <<T1, T2>>},
        wps \in {<<P1, P2>>, <<P2, P1>>, <<P1, P3>>}, wt \in {"x", "y"},
        wts \in {<<>>, <<T1, T2>>, <<T2, T1>>}}

InitStackSet ==
    /\ InitController(Configs(BusyEntries, 1), BusyTables, StackSetDiffs)
    /\ others = 0

SpecStackSet == InitStackSet /\ [][Next]_vars

\* The stack-set as it was found differs from what is wanted: in its
\* parameters, whatever their order, in its template checksum or in its tags.
Differs ==
    \/ ~PermEqual(found.Parameters, wanted.Parameters)
    \/ calculate_checksum(found.TemplateBody) # calculate_checksum(wanted.template)
    \/ found.Tags # wanted.Tags

\* A step that issues update_stack_set.
IssuesUpdateStackSet ==
    /\ IssuesCall
    /\ calls'[Len(calls')].call.kind = "update_stack_set"

UpdateAccepted ==
    \E i \in 1..Len(calls) :
        calls[i].call.kind = "update_stack_set" /\ calls[i].result = "ok"

\* deploy() of an existing stack-set is past update_stackset().
PastUpdate ==
    /\ existing_stack
    /\ \/ pc \in {"rollout", "rollout_call", "done"}
       \/ pc = "wait" /\ ret \in {"rollout", "rollout_call"}

\* C21: deploy() issues update_stack_set only for an existing stack-set that
\* differs from what is wanted in its parameters (compared whatever their
\* order), its template checksum or its tags; once past update_stackset() the
\* update was accepted exactly if the stack-set differed; a stack-set that
\* does not differ goes from update_stackset() on to the rollout pass, and
\* the completed run has classified every desired pair.
C21_UpdateIffDiffers ==
    /\ [][IssuesUpdateStackSet => (existing_stack /\ Differs)]_vars
    /\ [](PastUpdate => (UpdateAccepted <=> Differs))
    /\ [][(pc = "update_stackset" /\ pc' \notin {"update_stackset", "failed"}) =>
              pc' = (IF Differs THEN "update_stackset_call" ELSE "rollout")]_vars
    /\ []((pc = "done" /\ existing_stack /\ ~Differs) =>
              /\ "update_stack_set" \notin CallKinds
              /\ Desired \subseteq CreatePairs \cup UpdatePairs \cup SkipPairs)

\* A completed run on a stack-set whose parameters are the wanted ones in
\* another order: no update_stack_set, and an accepted create-instances call.
C21_Witness ==
    /\ pc = "done"
    /\ existing_stack
    /\ found.Parameters # wanted.Parameters
    /\ ~Differs
    /\ "update_stack_set" \notin CallKinds
    /\ "create" \in AcceptedKinds

\* ------------------------------------------------------------------ errors
\* deploy() and teardown() on a stack-set another actor may work on or
\* delete, any remote call failing at any point.

\* Another actor deletes the stack-set, which the remote side accepts while
\* the stack-set has no instance and no running operation.
OtherDeletes ==
    /\ stackset /\ ~Running /\ DOMAIN instances = {}
    /\ others < MaxOther
    /\ pc \notin {"done", "failed"}
    /\ others' = others + 1
    /\ stackset' = FALSE
    /\ described' = Nothing
    /\ UNCHANGED <<configVars, rolloutVars, controlVars, historyVars, plannerVars,
                   instances, operation, foreign>>

InitFaults ==
    \/ /\ InitController(Configs(BusyEntries, 1), BusyTables, TemplateDiffs)
       /\ others = 0
    \/ InitTeardown

NextFaults ==
    \/ Next
    \/ Teardown
    \/ WipeOutStart
    \/ WipeOutCall
    \/ DeleteStackSet
    \/ NotFound
    \/ OtherDeletes

SpecFaults == InitFaults /\ [][NextFaults]_vars

\* The step aborts the run.
Aborts == pc # "failed" /\ pc' = "failed"

\* The controller takes a step out of wait_pending_operations.
Polled == pc = "wait" /\ pc' # "wait"

\* C22: an error of a mutating call or of a poll, other than
\* OperationInProgressException and other than StackSetNotFoundException
\* answered to a poll, leaves deploy() or teardown() as it was raised; the
\* step that aborts the run changes nothing on the remote side and issues no
\* call beyond the one that failed; after it the controller issues no call.
C22_FatalAborts ==
    /\ [](pc = "failed" <=> error # "none")
    /\ [](pc = "failed" => error = raised)
    /\ [][(raised' # raised /\ ~(Polled /\ raised' \in {"none", "StackSetNotFoundException"}))
              => (pc' = "failed" /\ error' = raised')]_vars
    /\ [][Aborts =>
              /\ instances' = instances /\ stackset' = stackset /\ operation' = operation
              /\ \/ calls' = calls
                 \/ /\ Len(calls') = Len(calls) + 1
                    /\ SubSeq(calls', 1, Len(calls)) = calls
                    /\ calls'[Len(calls')].result = "error"]_vars
    /\ [][pc = "failed" => (pc' = "failed" /\ calls' = calls /\ error' = error)]_vars

\* A run aborted by an error after a batch of it had been accepted.
C22_Witness ==
    /\ pc = "failed"
    /\ error = "AccessDenied"
    /\ AcceptedKinds \cap {"create", "update", "delete"} # {}

\* What follows a poll that found no running operation.
AfterPoll ==
    IF ret \in {"cleanup_call", "rollout_call", "wipe_out_call"} THEN LoopNext(ret, todo) ELSE ret

\* C23: a poll answered StackSetNotFoundException raises no error and the
\* controller goes on as after a poll that found no running operation; a
\* poll answered with any other error aborts the run with that error.
C23_NotFoundPoll ==
    /\ [][(Polled /\ raised' = "StackSetNotFoundException") =>
              /\ error' = "none"
              /\ pc' = AfterPoll
              /\ ~awaiting'
              /\ calls' = calls]_vars
    /\ [][(Polled /\ raised' \notin {"none", "StackSetNotFoundException"}) =>
              (pc' = "failed" /\ error' = raised')]_vars

\* The controller past a poll that was answered StackSetNotFoundException.
C23_Witness ==
    /\ raised = "StackSetNotFoundException"
    /\ error = "none"
    /\ ~stackset
    /\ pc \in {"rollout", "delete_stackset", "cleanup", "wipe_out", "update_stackset"}

\* ------------------------------------------------- no rollout configuration
\* deploy() of a stack whose definition has no rollout: set_parameters leaves
\* stackset_rollout None.

\* create_stackset() and update_stackset() read stackset_rollout.strategy to
\* choose the PermissionModel, before the remote call: AttributeError on None.
NoneStrategy ==
    /\ pc \in {"create_stackset", "update_stackset_call"}
    /\ ~has_rollout
    /\ pc' = "failed"
    /\ error' = "AttributeError"
    /\ UNCHANGED <<configVars, rolloutVars, remoteVars, historyVars, quietVars, others,
                   ret, plan, todo, raised>>

\* cleanup_stackset(): stackset_rollout is None, nothing is cleaned up.
CleanupSkipped ==
    /\ pc = "cleanup"
    /\ ~has_rollout
    /\ pc' = "update_stackset"
    /\ UNCHANGED <<configVars, rolloutVars, remoteVars, historyVars, plannerVars, others,
                   ret, plan, todo>>

\* rollout_stackset(): stackset_rollout is None, nothing is rolled out.
RolloutSkipped ==
    /\ pc = "rollout"
    /\ ~has_rollout
    /\ pc' = "done"
    /\ UNCHANGED <<configVars, rolloutVars, remoteVars, historyVars, plannerVars, others,
                   ret, plan, todo>>

InitNoRollout ==
    /\ PassiveInit
    /\ strategy \in {"accounts", "organization"}
    /\ rollout_config = <<>>
    /\ has_rollout = FALSE
    /\ \/ /\ stackset = TRUE
          /\ instances \in BusyTables
          /\ \E d \in StackSetDiffs : described = d[1] /\ wanted = d[2]
       \/ /\ stackset = FALSE
          /\ instances = <<>>
          /\ described = Nothing
          /\ wanted = DefaultWanted
    /\ found = described
    /\ existing_stack = stackset
    /\ others = 0
    /\ pc = "deploy"
    /\ coll = <<>> /\ deployments = <<>>

NextNoRollout ==
    \/ Deploy
    \/ NoneStrategy
    \/ CleanupSkipped
    \/ StackSetNeedUpdate
    \/ RolloutSkipped
    \/ Fatal

SpecNoRollout == InitNoRollout /\ [][NextNoRollout]_vars

\* C29: without a rollout configuration deploy() fails only if the remote
\* service raises an error; completed, it leaves a stack-set that exists and
\* needs no update; it issues no create-, update- or delete-instances call.
C29_NoRollout ==
    ~has_rollout =>
        /\ pc = "failed" => raised # "none"
        /\ pc = "done" => (stackset /\ ~stackset_need_update(described, wanted, described))
        /\ CallKinds \cap {"create", "update", "delete"} = {}

\* --------------------------------------------------------------- discovery
\* The construction of the object, then deploy() or teardown().

\* find_existing_stackset: the description is taken when describe_stack_set
\* answers; every exception is caught and None returned.
find_existing_stackset(code) == code = "none"

\* __init__: existing_stack = find_existing_stackset(); then the command.
FindExistingStackSet ==
    /\ pc = "construct"
    /\ \E code \in (IF stackset THEN {"none"} ELSE {"StackSetNotFoundException"})
                       \cup OtherErrors :
         /\ raised' = code
         /\ existing_stack' = find_existing_stackset(code)
         /\ found' = IF find_existing_stackset(code) THEN described ELSE Nothing
    /\ \E cmd \in {"deploy", "teardown"} : pc' = cmd
    /\ UNCHANGED <<strategy, rollout_config, wanted, has_rollout, rolloutVars, remoteVars,
                   historyVars, quietVars, others, ret, plan, todo, error>>

InitDiscovery ==
    /\ PassiveInit
    /\ strategy \in {"accounts", "organization"}
    /\ rollout_config \in Configs(BusyEntries, 1)
    /\ has_rollout = TRUE
    /\ \/ /\ stackset = TRUE
          /\ instances \in BusyTables
          /\ \E d \in TemplateDiffs : described = d[1] /\ wanted = d[2]
       \/ /\ stackset = FALSE
          /\ instances = <<>>
          /\ described = Nothing
          /\ wanted = DefaultWanted
    /\ found = Nothing
    /\ existing_stack = FALSE
    /\ others = 0
    /\ pc = "construct"
    /\ coll = <<>> /\ deployments = <<>>

NextDiscovery ==
    \/ FindExistingStackSet
    \/ NextQuiet
    \/ Teardown
    \/ WipeOutStart
    \/ WipeOutCall
    \/ DeleteStackSet

SpecDiscovery == InitDiscovery /\ [][NextDiscovery]_vars

\* C30: the object takes the stack-set as absent only when describe_stack_set
\* answered that it does not exist, and as existing when it answered; any
\* other error of the discovery aborts the run with that error.  So
\* create_stack_set is never issued for a stack-set that exists, and
\* teardown() completes without a call only when no stack-set exists.
C30_Discovery ==
    /\ [][pc = "construct" =>
              IF raised' = "none" THEN existing_stack'
              ELSE IF raised' = "StackSetNotFoundException"
                   THEN ~existing_stack' /\ pc' \in {"deploy", "teardown"}
                   ELSE pc' = "failed" /\ error' = raised']_vars
    /\ [](pc = "create_stackset" => ~stackset)
    /\ []((pc = "done" /\ calls = <<>> /\ ~existing_stack) => ~stackset)

\* ------------------------------------------------------------- termination
\* The runs of SpecFaults under fairness: the program takes its next
\* statement whenever it can, and a running operation ends.  Other actors
\* start at most MaxOther operations, so contention stops; a remote call may
\* still fail.

\* A statement of deploy() or teardown() that is not a remote error.
ControllerStep ==
    \/ Deploy
    \/ CreateStackSet
    \/ CleanupStart
    \/ CleanupCall
    \/ StackSetNeedUpdate
    \/ UpdateStackSet
    \/ RolloutStart
    \/ RolloutCall
    \/ WaitPendingOperations
    \/ Teardown
    \/ WipeOutStart
    \/ WipeOutCall
    \/ DeleteStackSet
    \/ NotFound

\* Desired entries without overrides and instances of one target, with and
\* without overrides: each list the planner is given names one target.
FairConfigs ==
    {<<>>, <<Item(111, Regions, <<>>)>>, <<Item(222, {"ap-southeast-2"}, <<>>)>>}

FairTables ==
    UNION {[ps -> {[ParameterOverrides |-> <<>>,       Status |-> "CURRENT"],
                   [ParameterOverrides |-> <<P1, P2>>, Status |-> "CURRENT"]}] :
              ps \in SUBSET {<<111, "ap-southeast-2">>, <<111, "eu-west-1">>}}

InitFair ==
    \/ /\ InitController(FairConfigs, FairTables, TemplateDiffs)
       /\ others = 0
    \/ /\ PassiveInit
       /\ strategy \in {"accounts", "organization"}
       /\ rollout_config \in FairConfigs
       /\ \/ /\ stackset = TRUE
             /\ instances \in FairTables
          \/ /\ stackset = FALSE
             /\ instances = <<>>
       /\ Unchanged
       /\ existing_stack = stackset
       /\ others = 0
       /\ pc = "teardown"
       /\ coll = <<>> /\ deployments = <<>>

SpecFair ==
    /\ InitFair
    /\ [][NextFaults]_vars
    /\ WF_vars(ControllerStep)
    /\ WF_vars(OperationEnds)

\* A step in which a mutating call is answered OperationInProgressException.
Contended ==
    /\ IssuesCall
    /\ calls'[Len(calls')].result = "in_progress"

StackNames == {"a", "b", "c"}
TemplateTypes == {"stack", "stackset", "other"}
MaxStacks == 3

\* environment_parameters['stacks'], at most MaxStacks entries.
Declarations ==
    UNION {[1..n -> [name : StackNames, type : TemplateTypes, deployable : BOOLEAN]] :
              n \in 0..MaxStacks}

\* CloudformationCollection.templates: one template per declared stack, in
\* the order of the declaration (template files no stack uses follow; their
\* names are file keys, which no declared stack bears).
templates_of(env) ==
    [i \in 1..Len(env) |-> [name |-> env[i].name, template_type |-> env[i].type]]

\* [xt for xt in self.templates if xt.name == xs.get('name')].pop()
named_template(templates, name) ==
    With(SelectSeq(templates, LAMBDA xt : xt.name = name), LAMBDA m : m[Len(m)])

RECURSIVE list_deployable(_, _)
list_deployable(env, templates) ==
    IF env = <<>> THEN <<>>
    ELSE (IF Head(env).deployable = FALSE
            THEN <<>>
            ELSE <<named_template(templates, Head(env).name)>>)
         \o list_deployable(Tail(env), templates)

RECURSIVE setup_stacks(_)
setup_stacks(deployable) ==
    IF deployable = <<>> THEN <<>>
    ELSE (CASE Head(deployable).template_type = "stack" ->
                 <<[stack_name |-> Head(deployable).name, class |-> "CloudformationStack"]>>
            [] Head(deployable).template_type = "stackset" ->
                 <<[stack_name |-> Head(deployable).name, class |-> "CloudformationStackSet"]>>
            [] OTHER -> <<>>)
         \o setup_stacks(Tail(deployable))

reversed_same(xs) == xs

reversed(xs) == [i \in 1..Len(xs) |-> xs[Len(xs) + 1 - i]]

Event(op, what, xs) == [op |-> op, what |-> what, stack_name |-> xs.stack_name]

\* What the run as a whole leaves alone: everything of the single stack-set.
itemVars == <<configVars, rolloutVars, remoteVars, historyVars, others,
              ret, plan, todo, coll, deployments, answer, runs, raised>>

\* StackParser.__init__: self.stacks = self.setup_stacks()
SetupStacks ==
    /\ pc = "setup_stacks"
    /\ stacks' = setup_stacks(list_deployable(declared, templates_of(declared)))
    /\ pc' = "parsed"
    /\ UNCHANGED <<declared, events, command, queue, error, itemVars>>

\* deploy_stacks: for xs in self.stacks
DeployStacks ==
    /\ pc = "parsed" /\ command = "deploy"
    /\ queue' = stacks
    /\ pc' = "deploy_stacks"
    /\ UNCHANGED <<declared, stacks, events, command, error, itemVars>>

\* teardown_stacks: for xs in reversed(self.stacks)
TeardownStacks ==
    /\ pc = "parsed" /\ command = "teardown"
    /\ queue' = reversed(stacks)
    /\ pc' = "teardown_stacks"
    /\ UNCHANGED <<declared, stacks, events, command, error, itemVars>>

\* One turn of the loop of deploy_stacks up to the call of xs.deploy():
\* the parameters are resolved and the tags validated, either of which may
\* raise, and deploy() is entered.
DeployNext ==
    /\ pc = "deploy_stacks" /\ queue # <<>>
    /\ \/ /\ events' = Append(events, Event("deploy", "call", Head(queue)))
          /\ pc' = "in_deploy"
          /\ UNCHANGED error
       \/ /\ pc' = "failed"
          /\ error' = "InvalidStackConfiguration"
          /\ UNCHANGED events
    /\ UNCHANGED <<declared, stacks, command, queue, itemVars>>

\* xs.deploy() returns: the loop turns to the next item.
DeployReturns ==
    /\ pc = "in_deploy"
    /\ events' = Append(events, Event("deploy", "return", Head(queue)))
    /\ queue' = Tail(queue)
    /\ pc' = "deploy_stacks"
    /\ UNCHANGED <<declared, stacks, command, error, itemVars>>

\* The loop of teardown_stacks enters xs.teardown().
TeardownNext ==
    /\ pc = "teardown_stacks" /\ queue # <<>>
    /\ events' = Append(events, Event("teardown", "call", Head(queue)))
    /\ pc' = "in_teardown"
    /\ UNCHANGED <<declared, stacks, command, queue, error, itemVars>>

TeardownReturns ==
    /\ pc = "in_teardown"
    /\ events' = Append(events, Event("teardown", "return", Head(queue)))
    /\ queue' = Tail(queue)
    /\ pc' = "teardown_stacks"
    /\ UNCHANGED <<declared, stacks, command, error, itemVars>>

\* xs.deploy() or xs.teardown() raises: run() logs the error and exits.
ItemRaises ==
    /\ pc \in {"in_deploy", "in_teardown"}
    /\ events' = Append(events, Event(command, "raise", Head(queue)))
    /\ pc' = "failed"
    /\ \E code \in OtherErrors : error' = code
    /\ UNCHANGED <<declared, stacks, command, queue, itemVars>>

\* The loop is exhausted.
RunDone ==
    /\ pc \in {"deploy_stacks", "teardown_stacks"} /\ queue = <<>>
    /\ pc' = "done"
    /\ UNCHANGED <<runVars, error, itemVars>>

\* The environment is torn down by a later run of the program, whether the
\* deployment completed or not.
TeardownRun ==
    /\ pc \in {"done", "failed"} /\ command = "deploy"
    /\ command' = "teardown"
    /\ stacks' = <<>> /\ queue' = <<>>
    /\ error' = "none"
    /\ pc' = "setup_stacks"
    /\ UNCHANGED <<declared, events, itemVars>>

InitRun ==
    /\ stack_instances = <<>> /\ create = <<>> /\ update = <<>> /\ delete = <<>>
    /\ skip = {} /\ create_groups = <<>> /\ update_groups = <<>> /\ delete_groups = <<>>
    /\ ret = "none" /\ plan = <<>> /\ todo = <<>>
    /\ operation = Idle /\ foreign = {}
    /\ calls = <<>> /\ attempt = 0 /\ retry = "none" /\ awaiting = FALSE /\ stale = <<>>
    /\ answer = FALSE
    /\ runs = <<>>
    /\ raised = "none" /\ error = "none"
    /\ strategy = "accounts" /\ rollout_config = <<>>
    /\ stackset = FALSE /\ instances = <<>> /\ existing_stack = FALSE
    /\ Unchanged
    /\ others = 0
    /\ coll = <<>> /\ deployments = <<>>
    /\ declared \in Declarations
    /\ command \in {"deploy", "teardown"}
    /\ stacks = <<>> /\ queue = <<>> /\ events = <<>>
    /\ pc = "setup_stacks"

NextRun ==
    \/ SetupStacks
    \/ DeployStacks
    \/ TeardownStacks
    \/ DeployNext
    \/ DeployReturns
    \/ TeardownNext
    \/ TeardownReturns
    \/ ItemRaises
    \/ RunDone
    \/ TeardownRun

SpecRun == InitRun /\ [][NextRun]_vars

\* The declared items the run deploys: those not marked undeployable whose
\* name stands for a stack or a stack-set, in the order of the declaration.
\* (A name stands for the type of the last declaration that bears it.)
StandsFor(name) ==
    declared[CHOOSE i \in 1..Len(declared) :
                /\ declared[i].name = name
                /\ \A j \in (i+1)..Len(declared) : declared[j].name # name].type

RunItems ==
    SelectSeq(declared, LAMBDA xs : xs.deployable /\ StandsFor(xs.name) \in {"stack", "stackset"})

ItemNames == [i \in 1..Len(RunItems) |-> RunItems[i].name]

EventsOf(op) == SelectSeq(events, LAMBDA e : e.op = op)

Entered(op) ==
    With(SelectSeq(events, LAMBDA e : e.op = op /\ e.what = "call"),
         LAMBDA es : [i \in 1..Len(es) |-> es[i].stack_name])

IsPrefix(s, t) == Len(s) <= Len(t) /\ \A i \in 1..Len(s) : s[i] = t[i]

\* One at a time: the events of a command are a call, its return, the next
\* call, its return, ..., and end with the first failure.
OneAtATime(es) ==
    \A i \in 1..Len(es) :
        /\ (i % 2 = 1) => es[i].what = "call"
        /\ (i % 2 = 0) => /\ es[i].what \in {"return", "raise"}
                          /\ es[i].stack_name = es[i-1].stack_name
        /\ es[i].what = "raise" => i = Len(es)

\* C26: a run deploys the declared stacks and stack-sets one at a time in
\* the order of the declaration, the deploy of an item being entered only
\* after the deploy of the item before it has returned, and a teardown run
\* processes the same items in exactly the reverse order; a run that
\* completes has visited all of them.
C26_RunOrder ==
    /\ OneAtATime(EventsOf("deploy"))
    /\ OneAtATime(EventsOf("teardown"))
    /\ IsPrefix(Entered("deploy"), ItemNames)
    /\ IsPrefix(Entered("teardown"), [i \in 1..Len(ItemNames) |-> ItemNames[Len(ItemNames) + 1 - i]])
    /\ \A i \in 1..Len(events) : \A j \in 1..Len(events) :
          (events[i].op = "teardown" /\ events[j].op = "deploy") => j < i
    /\ pc = "done" => Entered(command) = (IF command = "deploy" THEN ItemNames
                        ELSE [i \in 1..Len(ItemNames) |-> ItemNames[Len(ItemNames) + 1 - i]])

\* An environment of a stack-set, a stack that is not deployable and a
\* stack was deployed and then torn down, both runs completing.
C26_Witness ==
    /\ pc = "done" /\ command = "teardown"
    /\ Len(declared) = 3
    /\ declared[1].type = "stackset" /\ declared[1].deployable
    /\ ~declared[2].deployable
    /\ declared[3].type = "stack" /\ declared[3].deployable
    /\ declared[1].name # declared[3].name /\ declared[2].name \notin {declared[1].name, declared[3].name}
    /\ Entered("deploy") = <<declared[1].name, declared[3].name>>
    /\ Entered("teardown") = <<declared[3].name, declared[1].name>>
    /\ \A i \in 1..Len(events) : events[i].what # "raise"

====
